---- MODULE Spec2Model ----
(***************************************************************************)
(* Model of update.py (andrey-malets/cow): the transactional snapshot      *)
(* promotion pipeline `add`, the transact combinator and the snapshot      *)
(* cleaner.  External commands (lvcreate, targetcli, virsh, ssh, ...) are  *)
(* the environment: each may succeed or exit non-zero.  What is raised is  *)
(* an exception derived from Exception (CalledProcessError, OSError,       *)
(* Timeout, ...); signals delivered to the process are not modelled.       *)
(***************************************************************************)
EXTENDS Naturals, Sequences, FiniteSets, TLC

(* ------------------------------------------------------------------ *)
(* Bounds                                                              *)
(* ------------------------------------------------------------------ *)

\* most external commands of rollback/cleanup handlers that exit non-zero in one run
MaxHandlerFailures == 1

\* most polls one wait_for makes before its deadline has passed
MaxPolls == 2

\* deepest nesting of transact scopes in the stand-alone transact machine
MaxDepth == 2

\* most cache subcommands run one after the other
MaxRuns == 2

\* most instances of the program started with the same --lock
MaxInstances == 3

\* most commands the subcommand of one instance issues
MaxCommands == 2

\* longest timeout, in seconds, wait_for is called with by itself
MaxTimeout == 3

\* longest step, in seconds, wait_for is called with by itself
MaxStep == 2

\* most sessions listed in one dynamic_sessions file
MaxSessions == 2

(* ------------------------------------------------------------------ *)
(* Names (pure functions of the volume path)                           *)
(* ------------------------------------------------------------------ *)

\* A path is a sequence of strings: its directory, then the parts of its
\* base name in the order the f-strings of the source concatenate them.
dirname(path) == Head(path)

basename(path) == Tail(path)

join(dir, name) == <<dir>> \o name

lvm_snapshot_name(origin, timestamp) == basename(origin) \o <<"-at-", timestamp>>

vm_snapshot_name(lvm_snapshot) == lvm_snapshot \o <<"-snapshot">>

snapshot_copy_name(vm_snapshot) == vm_snapshot \o <<"-copy">>

cache_lv_name(vm_snapshot) == vm_snapshot \o <<"-cache">>

get_iscsi_backstore_name(device) == basename(device)

get_iscsi_target_name(backstore_name) == <<"iqn.2013-07.cow.">> \o backstore_name

ipxe_config_filename(output, iscsi_target_name) == join(output, iscsi_target_name \o <<".ipxe">>)

snapshot_artifacts_path(output, snapshot_disk) == join(output, basename(snapshot_disk))

\* the timestamp embedded in the base name of an LV <origin>-at-<TS>...
TimestampOf(lv) == basename(lv)[3]

(* ------------------------------------------------------------------ *)
(* The run's inputs                                                    *)
(* ------------------------------------------------------------------ *)

VgDir == "/dev/vg/"

Output == "OUTPUT/"

\* the reference VM's only disk
RefLv == join(VgDir, <<"vm1">>)

\* generate_timestamp() of this run, of the previous publication, and of a
\* publication that was cleaned since
TS == "2024-05-01-10-00-00"

PrevTS == "2024-04-01-10-00-00"

GoneTS == "2024-03-01-10-00-00"

LvmSnapshot(ts) == join(dirname(RefLv), lvm_snapshot_name(RefLv, ts))

VmSnapshot(ts) == join(dirname(RefLv), vm_snapshot_name(lvm_snapshot_name(RefLv, ts)))

SnapshotCopy(ts) == join(dirname(RefLv), snapshot_copy_name(basename(VmSnapshot(ts))))

CacheLv(ts) == join(dirname(RefLv), cache_lv_name(basename(VmSnapshot(ts))))

Backstore(ts) == get_iscsi_backstore_name(VmSnapshot(ts))

Target(ts) == get_iscsi_target_name(Backstore(ts))

IpxeConfig(ts) == ipxe_config_filename(Output, Target(ts))

Artifacts(ts) == snapshot_artifacts_path(Output, VmSnapshot(ts))

BootIpxe == join(Output, <<"boot.ipxe">>)

BootTestIpxe == join(Output, <<"boot-test.ipxe">>)

\* saved_config: old_path = f'{path}.old'
OldPath(path) == path \o <<".old">>

LinkPaths == {BootIpxe, BootTestIpxe, OldPath(BootIpxe), OldPath(BootTestIpxe)}

\* the deployment symlink of --link-snapshot-copy and move_link's f'{dst}.new'
CopyTo == <<"/srv/", "deploy">>

NewPath(path) == path \o <<".new">>

\* readlink of a path that is no symlink
Nil == <<>>

NoExc == "None"

KernelImages == <<"vmlinuz", "initrd.img">>

\* a dynamic_sessions file with one initiator logged in: the sessions are
\* separated by NUL, what follows the last one is empty
ClientSession == <<"iqn.2005-03.org.open-iscsi:host1_2024-04-01_10-00-00", "">>

\* a chroot that binds /dev/pts before /dev
ChrootMounts_PtsFirst == <<"root", "proc", "sys", "dev/pts", "dev">>

\* chroot(): the mounts in the order they are entered
ChrootMounts == <<"root", "proc", "sys", "dev", "dev/pts">>

VARIABLES
    \* control of the running subcommand
    pc,          \* the statement the run is at
    stack,       \* the scopes that are open, in the order they were entered
    exc,         \* the exception in flight, NoExc when none
    args,        \* the parsed command line
    \* LVM
    lvs,         \* the logical volumes that exist
    cached,      \* the volumes lvconvert attached a cache to
    records,     \* the cache record files (base names)
    \* targetcli
    backstores,  \* live block backstores
    targets,     \* live iSCSI targets
    luns,        \* targets that have their LUN attached
    acls,        \* targets with generate_node_acls=1
    saved,       \* targets and backstores in the persisted configuration
    \* OUTPUT and the deployment directory
    ipxefiles,   \* the per-target ipxe files that exist
    dirs,        \* the artifacts directories that exist
    kernels,     \* <<directory, file>> for every published kernel image
    links,       \* readlink of every symlink path, Nil when absent
    \* machines
    refvm,       \* "running" or "stopped"
    testhost,    \* "up-old", "down", "up-new", "up-noread"
    resets,      \* how often virsh reset hit the test VM in this run
    sessions,    \* per target, the lines of its tpgt_1/dynamic_sessions file
    \* snapshot filesystem
    mapped,      \* devices whose kpartx partition mappings are active
    mounts,      \* the chroot mounts that are mounted
    tmpdir,      \* the temporary root directory exists
    stamps,      \* <<disk, timestamp>> for every /etc/timestamp written
    \* the host
    pv,          \* the cache PV's device and the volume group: the device
                 \* carries no PV label ("absent"), is a PV outside the group
                 \* ("pv") or in it ("in-vg"); or the group still lists a PV
                 \* that was lost, and the device is blank ("missing") or a
                 \* new PV outside the group ("missing-pv")
    lock,        \* the instance that holds the lock on --lock, 0 when free
    \* history of the run
    log,         \* the exit handlers that ran, in order
    hist         \* what the run has observed and done so far

ctl == <<pc, stack, exc>>

lvm == <<lvs, cached, records>>

iscsi == <<backstores, targets, luns, acls, saved>>

outdir == <<ipxefiles, dirs, kernels, links>>

machines == <<refvm, testhost, resets, sessions>>

snapfs == <<mapped, mounts, tmpdir, stamps>>

host == <<pv, lock>>

vars == <<pc, stack, exc, args, lvs, cached, records, backstores, targets, luns, acls,
          saved, ipxefiles, dirs, kernels, links, refvm, testhost, resets, sessions,
          mapped, mounts, tmpdir, stamps, pv, lock, log, hist>>

(* ------------------------------------------------------------------ *)
(* transact (update.py:59-90)                                          *)
(* ------------------------------------------------------------------ *)

\* a transact that picks its exit handler without looking at the failure
TransactHandler_IgnoresFailure(final, commit, rollback, failed) ==
    IF final THEN "final" ELSE IF commit THEN "commit" ELSE "none"

\* The handler transact calls at the exit of its body: with a failure in
\* flight next(filter(None, (final, rollback))), else
\* next(filter(None, (final, commit))); "none" when any(...) is false.
\* The arguments say which of final, commit, rollback were given.
TransactHandler(final, commit, rollback, failed) ==
    IF failed
    THEN IF final THEN "final" ELSE IF rollback THEN "rollback" ELSE "none"
    ELSE IF final THEN "final" ELSE IF commit THEN "commit" ELSE "none"

\* a transact that lets the exception of its handler escape
TransactExit_HandlerShadows(e, h) == IF h # NoExc THEN h ELSE e

\* The exception that leaves the scope when the body left with e and the
\* handler with h: the handler's exception is caught and logged, then the
\* bare raise re-raises e; on the else branch nothing is raised at all.
TransactExit(e, h) == e

\* a pipeline whose undo actions are handed to transact as commit handlers
ScopeHandlers_UndoAsCommit(scope) ==
    CASE scope \in {"partitions_exposed", "mounted", "lvm_snapshot"} ->
             [final |-> TRUE, commit |-> FALSE, rollback |-> FALSE]
      [] OTHER ->
             [final |-> FALSE, commit |-> TRUE, rollback |-> FALSE]

\* the handlers each transact scope of the pipeline is built with
ScopeHandlers(scope) ==
    CASE scope \in {"partitions_exposed", "mounted", "lvm_snapshot"} ->
             [final |-> TRUE, commit |-> FALSE, rollback |-> FALSE]
      [] scope = "move_link" ->
             [final |-> FALSE, commit |-> TRUE, rollback |-> FALSE]
      [] OTHER ->
             [final |-> FALSE, commit |-> FALSE, rollback |-> TRUE]

\* the handler the exit of `scope` calls with exception e in flight
HandlerOf(scope, e) ==
    LET h == ScopeHandlers(scope)
    IN  TransactHandler(h.final, h.commit, h.rollback, e # NoExc)

(* ------------------------------------------------------------------ *)
(* Helpers                                                             *)
(* ------------------------------------------------------------------ *)

Top(s) == s[Len(s)]

Pop(s) == SubSeq(s, 1, Len(s) - 1)

Push(s, scope, arg) == Append(s, [scope |-> scope, arg |-> arg])

\* os.path.exists follows symlinks: a dangling link does not exist
Exists(path) == links[path] # Nil /\ links[path] \in ipxefiles \cup lvs

\* os.path.lexists: what os.symlink, os.rename and os.remove look at
LExists(path) == links[path] # Nil

\* exit codes an external command of an exit handler may return
HandlerOutcomes == IF hist.hfails < MaxHandlerFailures THEN BOOLEAN ELSE {TRUE}

\* a handler whose command exited non-zero is remembered
Noted(h, ok, what) ==
    IF ok THEN h ELSE [h EXCEPT !.hfails = @ + 1, !.failed = @ \cup {what}]

\* the first exception of the run: remember where it was raised and which
\* scopes were open
RaisedAt(h, stk, n) ==
    IF h.raised_at = ""
    THEN [h EXCEPT !.raised_at = pc, !.opened = stk, !.logged = n]
    ELSE h

Raised(h, stk) == RaisedAt(h, stk, Len(log))

\* what a run of add may find at <link>.new
StaleNewLinks == {"none", "live", "dangling"}

(* ------------------------------------------------------------------ *)
(* Initial state: OUTPUT holds the previous publication                *)
(* ------------------------------------------------------------------ *)

Init ==
    /\ pc = "check_preconditions"
    /\ stack = <<>>
    /\ exc = NoExc
    /\ args \in [link_snapshot_copy : BOOLEAN, cache_config : BOOLEAN]
    /\ cached = {}
    /\ records = {}
    /\ backstores = {Backstore(PrevTS)}
    /\ targets = {Target(PrevTS)}
    /\ luns = {Target(PrevTS)}
    /\ acls = {Target(PrevTS)}
    /\ saved = {Backstore(PrevTS), Target(PrevTS)}
    /\ ipxefiles = {IpxeConfig(PrevTS)}
    /\ dirs = {Artifacts(PrevTS)}
    /\ kernels = {<<Artifacts(PrevTS), KernelImages[i]>> : i \in 1..2}
    \* boot.ipxe and boot-test.ipxe: absent (a fresh OUTPUT), the previous
    \* publication, or a publication whose ipxe file was cleaned since; their
    \* .old files: absent, or stale ones a run that was killed left behind.
    \* The deployment link is not there yet; <link>.new (looked at only with
    \* --link-snapshot-copy) is absent, or left behind by a run that was
    \* killed inside move_link: pointing at that run's -copy LV, which is
    \* still there (live) or was removed since (dangling).  A leftover
    \* <link>.new is combined with an OUTPUT that holds the previous
    \* publication and no other leftover.
    /\ \E boot \in {Nil, IpxeConfig(PrevTS), IpxeConfig(GoneTS)},
          test \in {Nil, IpxeConfig(PrevTS), IpxeConfig(GoneTS)},
          old \in {Nil, IpxeConfig(PrevTS)},
          new \in StaleNewLinks :
          /\ new # "none" =>
                /\ args.link_snapshot_copy
                /\ boot = IpxeConfig(PrevTS) /\ test = IpxeConfig(PrevTS) /\ old = Nil
          /\ links = [p \in LinkPaths |->
                         IF p = BootIpxe THEN boot
                         ELSE IF p = BootTestIpxe THEN test ELSE old]
                     @@ (CopyTo :> Nil)
                     @@ (NewPath(CopyTo) :> IF new = "none" THEN Nil
                                            ELSE SnapshotCopy(GoneTS))
          /\ lvs = {RefLv, VmSnapshot(PrevTS)}
                   \cup (IF new = "live" THEN {SnapshotCopy(GoneTS)} ELSE {})
    /\ refvm \in {"running", "stopped"}
    /\ testhost = "up-old"
    /\ resets = 0
    /\ sessions = [t \in {Target(PrevTS)} |-> ClientSession]
    /\ mapped = {}
    /\ mounts = {}
    /\ tmpdir = FALSE
    /\ pv = IF args.cache_config THEN "in-vg" ELSE "absent"
    /\ lock = 0
    /\ stamps = {<<VmSnapshot(PrevTS), PrevTS>>}
    /\ log = <<>>
    /\ hist = [boot_before |-> links[BootIpxe], test_before |-> links[BootTestIpxe],
               old_before |-> links[OldPath(BootIpxe)],
               raised_at |-> "", opened |-> <<>>, logged |-> 0, hfails |-> 0,
               failed |-> {},
               shutdown_sent |-> FALSE, observed_stopped |-> FALSE,
               observed_closed |-> FALSE, lvm_snapshot_created |-> FALSE,
               started |-> FALSE, verified |-> FALSE, prod_linked |-> FALSE,
               polls |-> 0, was_accessible |-> FALSE, seen |-> "",
               up_seen |-> FALSE, read |-> ""]

(* ------------------------------------------------------------------ *)
(* add_snapshot: the steps up to the promoted copy                     *)
(* ------------------------------------------------------------------ *)

\* check_preconditions: nothing is open yet, a failure leaves add at once
check_preconditions ==
    /\ pc = "check_preconditions"
    /\ \E accessible \in BOOLEAN :
          IF refvm = "running" /\ accessible
          THEN /\ pc' = "shutdown"
               /\ UNCHANGED <<exc, hist>>
          ELSE /\ pc' = "unwind"
               /\ exc' = "RuntimeError"
               /\ hist' = Raised(hist, stack)
    /\ UNCHANGED <<stack, args, lvm, iscsi, outdir, machines, snapfs, log>>
    /\ UNCHANGED host

\* shutdown(host): wait_for(no_dpkg_locks), then ssh host 'shutdown now'
\* (subprocess.call: the exit code is not looked at)
shutdown ==
    /\ pc = "shutdown"
    /\ \/ /\ pc' = "vm_shut_down"
          /\ hist' = [hist EXCEPT !.shutdown_sent = TRUE]
          /\ UNCHANGED exc
       \/ /\ pc' = "unwind"
          /\ exc' = "Timeout"
          /\ hist' = Raised(hist, stack)
    /\ UNCHANGED <<stack, args, lvm, iscsi, outdir, machines, snapfs, log>>
    /\ UNCHANGED host

\* vm_shut_down before its yield: wait_for(not vmm.is_vm_running(name), 180, 3).
\* A Timeout is raised before the try block is entered: no finally runs.
vm_shut_down ==
    /\ pc = "vm_shut_down"
    /\ \/ /\ refvm' = "stopped"
          /\ pc' = "wait_lv_closed"
          /\ stack' = Push(stack, "vm_shut_down", "ref_vm")
          /\ hist' = [hist EXCEPT !.observed_stopped = TRUE]
          /\ UNCHANGED exc
       \/ /\ refvm' \in {"running", "stopped"}
          /\ pc' = "unwind"
          /\ exc' = "Timeout"
          /\ hist' = Raised(hist, stack)
          /\ UNCHANGED stack
    /\ UNCHANGED <<sessions, args, lvm, iscsi, outdir, testhost, resets, snapfs, log>>
    /\ UNCHANGED host

\* a create_vm_disk_snapshot that does not wait for the LV to be closed
wait_lv_closed_Skipped ==
    /\ pc = "wait_lv_closed"
    /\ pc' = "create_lvm_snapshot"
    /\ UNCHANGED <<stack, exc, args, lvm, iscsi, outdir, machines, snapfs, log, hist>>
    /\ UNCHANGED host

\* create_vm_disk_snapshot: get_disk, wait_for(not is_lv_open(lv), 30, 1)
wait_lv_closed ==
    /\ pc = "wait_lv_closed"
    /\ \/ /\ pc' = "create_lvm_snapshot"
          /\ hist' = [hist EXCEPT !.observed_closed = TRUE]
          /\ UNCHANGED exc
       \/ /\ pc' = "vm_start"
          /\ exc' = "Timeout"
          /\ hist' = Raised(hist, stack)
    /\ UNCHANGED <<stack, args, lvm, iscsi, outdir, machines, snapfs, log>>
    /\ UNCHANGED host

\* create_lvm_snapshot: lvcreate -y -s -n <origin>-at-<TS>
create_lvm_snapshot ==
    /\ pc = "create_lvm_snapshot"
    /\ \/ /\ lvs' = lvs \cup {LvmSnapshot(TS)}
          /\ hist' = [hist EXCEPT !.lvm_snapshot_created = TRUE]
          /\ UNCHANGED exc
       \/ /\ exc' = "CalledProcessError"
          /\ hist' = Raised(hist, stack)
          /\ UNCHANGED lvs
    /\ pc' = "vm_start"
    /\ UNCHANGED <<stack, args, cached, records, iscsi, outdir, machines, snapfs, log>>
    /\ UNCHANGED host

\* vm_shut_down, finally: vmm.start(name); an exception of virsh start
\* replaces the one in flight and leaves before the wait
vm_start ==
    /\ pc = "vm_start"
    /\ Top(stack).scope = "vm_shut_down"
    /\ stack' = Pop(stack)
    /\ log' = Append(log, <<"vmm.start", "ref_vm">>)
    /\ \/ /\ refvm' = "running"
          /\ pc' = "wait_ssh"
          /\ hist' = [hist EXCEPT !.started = TRUE]
          /\ UNCHANGED exc
       \/ /\ pc' = "unwind"
          /\ exc' = "CalledProcessError"
          /\ hist' = RaisedAt([hist EXCEPT !.started = TRUE], stack', Len(log) + 1)
          /\ UNCHANGED refvm
    /\ UNCHANGED <<sessions, args, lvm, iscsi, outdir, testhost, resets, snapfs>>
    /\ UNCHANGED host

\* a vm_shut_down that logs the Timeout of its wait and does not re-raise
wait_ssh_TimeoutLogged ==
    /\ pc = "wait_ssh"
    /\ \/ UNCHANGED hist
       \/ hist' = Raised(hist, stack)
    /\ pc' = IF exc = NoExc THEN "volume_copy" ELSE "unwind"
    /\ stack' = IF exc = NoExc THEN Push(stack, "lvm_snapshot", LvmSnapshot(TS)) ELSE stack
    /\ UNCHANGED <<exc, args, lvm, iscsi, outdir, machines, snapfs, log>>
    /\ UNCHANGED host

\* vm_shut_down, finally: wait_for(is_accessible(host), 300, 5); Timeout is
\* logged and re-raised.  create_vm_disk_snapshot then returns the path, or
\* the exception leaves transact's prepare: no handler of that scope runs.
wait_ssh ==
    /\ pc = "wait_ssh"
    /\ \/ /\ pc' = IF exc = NoExc THEN "volume_copy" ELSE "unwind"
          /\ stack' = IF exc = NoExc THEN Push(stack, "lvm_snapshot", LvmSnapshot(TS))
                       ELSE stack
          /\ UNCHANGED <<exc, hist>>
       \/ /\ pc' = "unwind"
          /\ exc' = "Timeout"
          /\ hist' = Raised(hist, stack)
          /\ UNCHANGED stack
    /\ UNCHANGED <<args, lvm, iscsi, outdir, machines, snapfs, log>>
    /\ UNCHANGED host

\* volume_copy(lvm_snapshot, <name>-snapshot): prepare create_volume_copy
\* (blockdev --getsize64, lvcreate), entered on vm_disk_snapshot's stack
volume_copy ==
    /\ pc = "volume_copy"
    /\ \/ /\ lvs' = lvs \cup {VmSnapshot(TS)}
          /\ stack' = Push(stack, "volume_copy", VmSnapshot(TS))
          /\ pc' = "copy_data"
          /\ UNCHANGED <<exc, hist>>
       \/ /\ exc' = "CalledProcessError"
          /\ pc' = "lvm_snapshot_final"
          /\ hist' = Raised(hist, stack)
          /\ UNCHANGED <<lvs, stack>>
    /\ UNCHANGED <<args, cached, records, iscsi, outdir, machines, snapfs, log>>
    /\ UNCHANGED host

\* copy_data(lvm_snapshot, vm_snapshot): dd
copy_data ==
    /\ pc = "copy_data"
    /\ \/ UNCHANGED <<exc, hist>>
       \/ /\ exc' = "CalledProcessError"
          /\ hist' = Raised(hist, stack)
    /\ pc' = "lvm_snapshot_final"
    /\ UNCHANGED <<stack, args, lvm, iscsi, outdir, machines, snapfs, log>>
    /\ UNCHANGED host

\* exit of transact(prepare=create_vm_disk_snapshot, final=remove_lv): the
\* scope closes before vm_disk_snapshot yields, on success and on failure
lvm_snapshot_final ==
    /\ pc = "lvm_snapshot_final"
    /\ HandlerOf("lvm_snapshot", exc) = "final"
    /\ stack' = SelectSeq(stack, LAMBDA s : s.scope # "lvm_snapshot")
    /\ \E ok \in HandlerOutcomes :
          /\ lvs' = IF ok THEN lvs \ {LvmSnapshot(TS)} ELSE lvs
          /\ exc' = TransactExit(exc, IF ok THEN NoExc ELSE "CalledProcessError")
          /\ hist' = Noted(hist, ok, <<"remove_lv", "lvm_snapshot">>)
    /\ log' = Append(log, <<"remove_lv", "lvm_snapshot">>)
    /\ pc' = IF exc' = NoExc THEN "snapshot_artifacts" ELSE "unwind"
    /\ UNCHANGED <<args, cached, records, iscsi, outdir, machines, snapfs>>
    /\ UNCHANGED host

(* ------------------------------------------------------------------ *)
(* add_snapshot: artifacts directory, partition rename, chroot         *)
(* ------------------------------------------------------------------ *)

\* snapshot_artifacts before its yield: assert not exists, os.makedirs
snapshot_artifacts ==
    /\ pc = "snapshot_artifacts"
    /\ IF Artifacts(TS) \notin dirs
       THEN /\ dirs' = dirs \cup {Artifacts(TS)}
            /\ stack' = Push(stack, "snapshot_artifacts", Artifacts(TS))
            /\ pc' = "disk_info_base"
            /\ UNCHANGED <<exc, hist>>
       ELSE /\ exc' = "AssertionError"
            /\ pc' = "unwind"
            /\ hist' = Raised(hist, stack)
            /\ UNCHANGED <<dirs, stack>>
    /\ UNCHANGED <<args, lvm, iscsi, ipxefiles, kernels, links, machines, snapfs, log>>
    /\ UNCHANGED host

\* get_disk_information + get_partition, before and after the rename:
\* parted print, kpartx -l -s (which exposes the mappings) and, in
\* get_kpartx_names' finally, a best-effort cleanup_kpartx
get_disk_information ==
    /\ pc \in {"disk_info_base", "disk_info_network"}
    /\ \E listed \in BOOLEAN, cleaned \in HandlerOutcomes :
          /\ mapped' = IF cleaned THEN mapped \ {VmSnapshot(TS)}
                       ELSE mapped \cup {VmSnapshot(TS)}
          /\ IF listed
             THEN /\ pc' = IF pc = "disk_info_base" THEN "set_partition_name"
                          ELSE "partitions_exposed"
                  /\ hist' = Noted(hist, cleaned, <<"cleanup_kpartx", "listing">>)
                  /\ UNCHANGED exc
             ELSE /\ pc' = "unwind"
                  /\ exc' = "DiskConfigError"
                  /\ hist' = Raised(Noted(hist, cleaned, <<"cleanup_kpartx", "listing">>), stack)
    /\ UNCHANGED <<stack, args, lvm, iscsi, outdir, machines, mounts, tmpdir, stamps, log>>
    /\ UNCHANGED host

\* set_partition_name: parted name <number> <network name>
set_partition_name ==
    /\ pc = "set_partition_name"
    /\ \/ /\ pc' = "disk_info_network"
          /\ UNCHANGED <<exc, hist>>
       \/ /\ pc' = "unwind"
          /\ exc' = "CalledProcessError"
          /\ hist' = Raised(hist, stack)
    /\ UNCHANGED <<stack, args, lvm, iscsi, outdir, machines, snapfs, log>>
    /\ UNCHANGED host

\* partitions_exposed: prepare kpartx -a -s, entered on fs_stack
partitions_exposed ==
    /\ pc = "partitions_exposed"
    /\ \/ /\ mapped' = mapped \cup {VmSnapshot(TS)}
          /\ stack' = Push(stack, "partitions_exposed", VmSnapshot(TS))
          /\ pc' = "chroot"
          /\ UNCHANGED <<exc, hist>>
       \/ /\ pc' = "unwind"
          /\ exc' = "CalledProcessError"
          /\ hist' = Raised(hist, stack)
          /\ UNCHANGED <<mapped, stack>>
    /\ UNCHANGED <<args, lvm, iscsi, outdir, machines, mounts, tmpdir, stamps, log>>
    /\ UNCHANGED host

\* chroot: tempfile.TemporaryDirectory(prefix='snapshot_root_')
chroot ==
    /\ pc = "chroot"
    /\ tmpdir' = TRUE
    /\ stack' = Push(stack, "tmpdir", "snapshot_root_")
    /\ pc' = "mounted"
    /\ UNCHANGED <<exc, args, lvm, iscsi, outdir, machines, mapped, mounts, stamps, log, hist>>
    /\ UNCHANGED host

\* the mounts that are entered so far
Mounted(stk) == SelectSeq(stk, LAMBDA s : s.scope = "mounted")

\* mounted(): mount, then transact(final=umount); chroot enters the five
\* mounts in the order of ChrootMounts and then yields
mounted ==
    /\ pc = "mounted"
    /\ LET i == Len(Mounted(stack)) + 1
       IN  \/ /\ mounts' = mounts \cup {ChrootMounts[i]}
              /\ stack' = Push(stack, "mounted", ChrootMounts[i])
              /\ pc' = IF i = Len(ChrootMounts) THEN "copy_files" ELSE "mounted"
              /\ UNCHANGED <<exc, hist>>
           \/ /\ pc' = "unwind"
              /\ exc' = "CalledProcessError"
              /\ hist' = Raised(hist, stack)
              /\ UNCHANGED <<mounts, stack>>
    /\ UNCHANGED <<args, lvm, iscsi, outdir, machines, mapped, tmpdir, stamps, log>>
    /\ UNCHANGED host

\* copy_files(root, args.to_copy)
copy_files ==
    /\ pc = "copy_files"
    /\ \/ /\ pc' = "write_timestamp"
          /\ UNCHANGED <<exc, hist>>
       \/ /\ pc' = "unwind"
          /\ exc' = "OSError"
          /\ hist' = Raised(hist, stack)
    /\ UNCHANGED <<stack, args, lvm, iscsi, outdir, machines, snapfs, log>>
    /\ UNCHANGED host

\* a write_timestamp that takes the time anew instead of printing its argument
TimestampFile_Now(timestamp) == "2024-05-01-10-07-30"

\* what write_timestamp(root, timestamp) prints into <root>/etc/timestamp
TimestampFile(timestamp) == timestamp

\* write_timestamp(root, timestamp): add_snapshot passes the timestamp the
\* names were made of
write_timestamp ==
    /\ pc = "write_timestamp"
    /\ stamps' = stamps \cup {<<VmSnapshot(TS), TimestampFile(TS)>>}
    /\ pc' = "run_chroot_script"
    /\ UNCHANGED <<stack, exc, args, lvm, iscsi, outdir, machines, mapped, mounts, tmpdir, log, hist>>
    /\ UNCHANGED host

\* write_cow_config, run_chroot_script: chroot <root> <script>
run_chroot_script ==
    /\ pc = "run_chroot_script"
    /\ \/ /\ pc' = "publish_kernel_images"
          /\ UNCHANGED <<exc, hist>>
       \/ /\ pc' = "unwind"
          /\ exc' = "CalledProcessError"
          /\ hist' = Raised(hist, stack)
    /\ UNCHANGED <<stack, args, lvm, iscsi, outdir, machines, snapfs, log>>
    /\ UNCHANGED host

\* publish_kernel_images: shutil.copy2 of vmlinuz, then of initrd.img; the
\* body of fs_stack ends here
publish_kernel_images ==
    /\ pc = "publish_kernel_images"
    /\ \E n \in 0..Len(KernelImages) :
          /\ kernels' = kernels \cup {<<Artifacts(TS), KernelImages[i]>> : i \in 1..n}
          /\ IF n = Len(KernelImages)
             THEN /\ pc' = "fs_exit"
                  /\ UNCHANGED <<exc, hist>>
             ELSE /\ pc' = "unwind"
                  /\ exc' = "OSError"
                  /\ hist' = Raised(hist, stack)
    /\ UNCHANGED <<stack, args, lvm, iscsi, ipxefiles, dirs, links, machines, snapfs, log>>
    /\ UNCHANGED host

(* ------------------------------------------------------------------ *)
(* Scope exits.  ExitStack closes the innermost open scope first; an   *)
(* exception in flight is handed from scope to scope.                  *)
(* ------------------------------------------------------------------ *)

\* an exit stack that closes its scopes in the order they were entered
CloseIndex_Fifo(stk) == 1

\* ExitStack.__exit__ pops its callbacks from the right: the position, in
\* entry order, of the scope that is closed next
CloseIndex(stk) == Len(stk)

NextToClose(stk) == stk[CloseIndex(stk)]

\* the open scopes once that one is closed
Remaining(stk) ==
    [i \in 1..(Len(stk) - 1) |-> IF i < CloseIndex(stk) THEN stk[i] ELSE stk[i + 1]]

FsScopes == {"partitions_exposed", "tmpdir", "mounted"}

CacheScopes == {"cache_volume", "cache_record"}

\* snapshot_stack closes every scope; fs_stack and the ExitStack of
\* configure_caching close their own
Closing(scope) ==
    /\ stack # <<>>
    /\ NextToClose(stack).scope = scope
    /\ \/ pc = "unwind"
       \/ pc = "fs_exit" /\ scope \in FsScopes
       \/ pc = "cache_exit" /\ scope \in CacheScopes

\* mounted: transact(final=umount mountpoint)
exit_mounted ==
    /\ Closing("mounted")
    /\ HandlerOf("mounted", exc) = "final"
    /\ \E ok \in HandlerOutcomes :
          /\ mounts' = IF ok THEN mounts \ {NextToClose(stack).arg} ELSE mounts
          /\ exc' = TransactExit(exc, IF ok THEN NoExc ELSE "CalledProcessError")
          /\ hist' = Noted(hist, ok, <<"umount", NextToClose(stack).arg>>)
    /\ log' = Append(log, <<"umount", NextToClose(stack).arg>>)
    /\ stack' = Remaining(stack)
    /\ UNCHANGED <<pc, args, lvm, iscsi, outdir, machines, mapped, tmpdir, stamps>>
    /\ UNCHANGED host

\* TemporaryDirectory.__exit__: rmtree of the root directory; with something
\* still mounted beneath it the removal fails and its OSError is raised
exit_tmpdir ==
    /\ Closing("tmpdir")
    /\ IF mounts = {}
       THEN /\ tmpdir' = FALSE
            /\ UNCHANGED <<exc, hist>>
       ELSE /\ exc' = "OSError"
            /\ hist' = RaisedAt(hist, Remaining(stack), Len(log) + 1)
            /\ UNCHANGED tmpdir
    /\ log' = Append(log, <<"rmtree", "snapshot_root_">>)
    /\ stack' = Remaining(stack)
    /\ UNCHANGED <<pc, args, lvm, iscsi, outdir, machines, mapped, mounts, stamps>>
    /\ UNCHANGED host

\* partitions_exposed: transact(final=cleanup_kpartx(device))
exit_partitions_exposed ==
    /\ Closing("partitions_exposed")
    /\ HandlerOf("partitions_exposed", exc) = "final"
    /\ \E ok \in HandlerOutcomes :
          /\ mapped' = IF ok THEN mapped \ {NextToClose(stack).arg} ELSE mapped
          /\ exc' = TransactExit(exc, IF ok THEN NoExc ELSE "RuntimeError")
          /\ hist' = Noted(hist, ok, <<"cleanup_kpartx", "snapshot">>)
    /\ log' = Append(log, <<"cleanup_kpartx", "snapshot">>)
    /\ stack' = Remaining(stack)
    /\ UNCHANGED <<pc, args, lvm, iscsi, outdir, machines, mounts, tmpdir, stamps>>
    /\ UNCHANGED host

\* fs_stack is closed: add goes on, or the exception of its exit unwinds
\* snapshot_stack
fs_stack_closed ==
    /\ pc = "fs_exit"
    /\ NextToClose(stack).scope \notin FsScopes
    /\ pc' = IF exc = NoExc THEN "link_snapshot_copy" ELSE "unwind"
    /\ UNCHANGED <<stack, exc, args, lvm, iscsi, outdir, machines, snapfs, log, hist>>
    /\ UNCHANGED host

\* snapshot_artifacts after its yield: except Exception: shutil.rmtree(path); raise
exit_snapshot_artifacts ==
    /\ Closing("snapshot_artifacts")
    /\ IF exc # NoExc
       THEN /\ dirs' = dirs \ {NextToClose(stack).arg}
            /\ kernels' = {k \in kernels : k[1] # NextToClose(stack).arg}
            /\ log' = Append(log, <<"rmtree", "artifacts">>)
       ELSE UNCHANGED <<dirs, kernels, log>>
    /\ stack' = Remaining(stack)
    /\ UNCHANGED <<pc, exc, args, lvm, iscsi, ipxefiles, links, machines, snapfs, hist>>
    /\ UNCHANGED host

\* remove_lv(name): lvremove -f; the cache volume attached to a cached LV
\* goes with it
LvsWithout(name) ==
    IF name \in cached THEN lvs \ {name, join(dirname(name), cache_lv_name(basename(name)))}
    ELSE lvs \ {name}

\* volume_copy: transact(prepare=create_volume_copy, rollback=remove_lv(result[0]))
exit_volume_copy ==
    /\ Closing("volume_copy")
    /\ IF HandlerOf("volume_copy", exc) = "rollback"
       THEN /\ \E ok \in HandlerOutcomes :
                  /\ lvs' = IF ok THEN LvsWithout(NextToClose(stack).arg) ELSE lvs
                  /\ cached' = IF ok THEN cached \ {NextToClose(stack).arg} ELSE cached
                  /\ exc' = TransactExit(exc, IF ok THEN NoExc ELSE "CalledProcessError")
                  /\ hist' = Noted(hist, ok, IF NextToClose(stack).arg = VmSnapshot(TS)
                                              THEN <<"remove_lv", "snapshot">>
                                              ELSE <<"remove_lv", "copy">>)
            /\ log' = Append(log, IF NextToClose(stack).arg = VmSnapshot(TS)
                                  THEN <<"remove_lv", "snapshot">> ELSE <<"remove_lv", "copy">>)
       ELSE UNCHANGED <<lvs, cached, exc, hist, log>>
    /\ stack' = Remaining(stack)
    /\ UNCHANGED <<pc, args, records, iscsi, outdir, machines, snapfs>>
    /\ UNCHANGED host

(* ------------------------------------------------------------------ *)
(* add_snapshot: snapshot copy, cache, iSCSI publication               *)
(* ------------------------------------------------------------------ *)

\* link_snapshot_copy: volume_copy(origin, <name>-copy) on its ExitStack
link_snapshot_copy ==
    /\ pc = "link_snapshot_copy"
    /\ IF ~args.link_snapshot_copy
       THEN /\ pc' = "configure_caching"
            /\ UNCHANGED <<lvs, stack, exc, hist>>
       ELSE \/ /\ lvs' = lvs \cup {SnapshotCopy(TS)}
               /\ stack' = Push(stack, "volume_copy", SnapshotCopy(TS))
               /\ pc' = "copy_data_link"
               /\ UNCHANGED <<exc, hist>>
            \/ /\ pc' = "unwind"
               /\ exc' = "CalledProcessError"
               /\ hist' = Raised(hist, stack)
               /\ UNCHANGED <<lvs, stack>>
    /\ UNCHANGED <<args, cached, records, iscsi, outdir, machines, snapfs, log>>
    /\ UNCHANGED host

\* link_snapshot_copy: copy_data(origin, copy), then the commit-only scope
\* transact(commit=move_link(copy, copy_to)) is entered
copy_data_link ==
    /\ pc = "copy_data_link"
    /\ \/ /\ stack' = Push(stack, "move_link", SnapshotCopy(TS))
          /\ pc' = "configure_caching"
          /\ UNCHANGED <<exc, hist>>
       \/ /\ pc' = "unwind"
          /\ exc' = "CalledProcessError"
          /\ hist' = Raised(hist, stack)
          /\ UNCHANGED stack
    /\ UNCHANGED <<args, lvm, iscsi, outdir, machines, snapfs, log>>
    /\ UNCHANGED host

\* move_link(src, dst): a stale dst.new that exists runs into the call of
\* logging.waring, which is no attribute of logging (AttributeError); one
\* that is a dangling link makes os.symlink raise FileExistsError; else
\* symlink to dst.new and rename over dst.  The links afterwards and the
\* exception raised.
move_link(l, src, dst) ==
    IF l[NewPath(dst)] # Nil /\ l[NewPath(dst)] \in ipxefiles \cup lvs
    THEN [links |-> l, exc |-> "AttributeError"]
    ELSE IF l[NewPath(dst)] # Nil
    THEN [links |-> l, exc |-> "FileExistsError"]
    ELSE [links |-> [l EXCEPT ![dst] = src], exc |-> NoExc]

exit_move_link ==
    /\ Closing("move_link")
    /\ IF HandlerOf("move_link", exc) = "commit"
       THEN LET r == move_link(links, NextToClose(stack).arg, CopyTo)
            IN  /\ links' = r.links
                /\ exc' = TransactExit(exc, r.exc)
                /\ log' = Append(log, <<"move_link", "copy">>)
       ELSE UNCHANGED <<links, exc, log>>
    /\ stack' = Remaining(stack)
    /\ UNCHANGED <<pc, args, lvm, iscsi, ipxefiles, dirs, kernels, machines, snapfs, hist>>
    /\ UNCHANGED host

\* configure_caching(snapshot_disk, args.cache_config): without a cache
\* config nothing is done; else cache_volume: prepare create_cache_volume.
\* Whatever is raised inside is caught and logged by configure_caching.
configure_caching ==
    /\ pc = "configure_caching"
    /\ IF ~args.cache_config
       THEN /\ pc' = "publish_to_iscsi"
            /\ UNCHANGED <<lvs, stack>>
       ELSE \/ /\ lvs' = lvs \cup {CacheLv(TS)}
               /\ stack' = Push(stack, "cache_volume", CacheLv(TS))
               /\ pc' = "cache_record"
            \/ /\ pc' = "publish_to_iscsi"
               /\ UNCHANGED <<lvs, stack>>
    /\ UNCHANGED <<exc, args, cached, records, iscsi, outdir, machines, snapfs, log, hist>>
    /\ UNCHANGED host

\* cache_record: prepare create_cache_record (makedirs, open(..., 'w'))
cache_record ==
    /\ pc = "cache_record"
    /\ \/ /\ records' = records \cup {basename(VmSnapshot(TS))}
          /\ stack' = Push(stack, "cache_record", VmSnapshot(TS))
          /\ pc' = "lvconvert"
          /\ UNCHANGED exc
       \/ /\ pc' = "cache_exit"
          /\ exc' = "OSError"
          /\ UNCHANGED <<records, stack>>
    /\ UNCHANGED <<args, lvs, cached, iscsi, outdir, machines, snapfs, log, hist>>
    /\ UNCHANGED host

\* lvconvert -y --type cache --cachevol <cache> --cachemode writethrough
lvconvert ==
    /\ pc = "lvconvert"
    /\ \/ /\ cached' = cached \cup {VmSnapshot(TS)}
          /\ UNCHANGED exc
       \/ /\ exc' = "CalledProcessError"
          /\ UNCHANGED cached
    /\ pc' = "cache_exit"
    /\ UNCHANGED <<stack, args, lvs, records, iscsi, outdir, machines, snapfs, log, hist>>
    /\ UNCHANGED host

\* a cache_record scope without its rollback
exit_cache_record_Kept ==
    /\ Closing("cache_record")
    /\ exc' = TransactExit(exc, NoExc)
    /\ stack' = Remaining(stack)
    /\ UNCHANGED <<pc, args, lvm, iscsi, outdir, machines, snapfs, log, hist>>
    /\ UNCHANGED host

\* cache_record: transact(rollback=delete_cache_record); a missing record
\* file is only logged by delete_cache_record itself
exit_cache_record ==
    /\ Closing("cache_record")
    /\ IF HandlerOf("cache_record", exc) = "rollback"
       THEN /\ records' = records \ {basename(NextToClose(stack).arg)}
            /\ log' = Append(log, <<"delete_cache_record", "snapshot">>)
       ELSE UNCHANGED <<records, log>>
    /\ exc' = TransactExit(exc, NoExc)
    /\ stack' = Remaining(stack)
    /\ UNCHANGED <<pc, args, lvs, cached, iscsi, outdir, machines, snapfs, hist>>
    /\ UNCHANGED host

\* cache_volume: transact(rollback=remove_lv(result[0]))
exit_cache_volume ==
    /\ Closing("cache_volume")
    /\ IF HandlerOf("cache_volume", exc) = "rollback"
       THEN /\ \E ok \in HandlerOutcomes :
                  /\ lvs' = IF ok THEN lvs \ {NextToClose(stack).arg} ELSE lvs
                  /\ exc' = TransactExit(exc, IF ok THEN NoExc ELSE "CalledProcessError")
                  /\ hist' = Noted(hist, ok, <<"remove_lv", "cache">>)
            /\ log' = Append(log, <<"remove_lv", "cache">>)
       ELSE UNCHANGED <<lvs, exc, hist, log>>
    /\ stack' = Remaining(stack)
    /\ UNCHANGED <<pc, args, cached, records, iscsi, outdir, machines, snapfs>>
    /\ UNCHANGED host

\* configure_caching returns the volume: its ExitStack is closed and
\* `except Exception` has swallowed what was raised
configure_caching_returns ==
    /\ pc = "cache_exit"
    /\ NextToClose(stack).scope \notin CacheScopes
    /\ exc' = NoExc
    /\ pc' = "publish_to_iscsi"
    /\ UNCHANGED <<stack, args, lvm, iscsi, outdir, machines, snapfs, log, hist>>
    /\ UNCHANGED host

\* publish_to_iscsi: the outer transact(rollback=save_iscsi_config) is entered
publish_to_iscsi ==
    /\ pc = "publish_to_iscsi"
    /\ stack' = Push(stack, "publish_to_iscsi", VmSnapshot(TS))
    /\ pc' = "create_iscsi_backstore"
    /\ UNCHANGED <<exc, args, lvm, iscsi, outdir, machines, snapfs, log, hist>>
    /\ UNCHANGED host

\* create_iscsi_backstore: targetcli /backstores/block create, then
\* transact(rollback=remove_iscsi_backstore)
create_iscsi_backstore ==
    /\ pc = "create_iscsi_backstore"
    /\ \/ /\ backstores' = backstores \cup {Backstore(TS)}
          /\ stack' = Push(stack, "create_iscsi_backstore", Backstore(TS))
          /\ pc' = "create_iscsi_target"
          /\ UNCHANGED <<exc, hist>>
       \/ /\ pc' = "unwind"
          /\ exc' = "CalledProcessError"
          /\ hist' = Raised(hist, stack)
          /\ UNCHANGED <<backstores, stack>>
    /\ UNCHANGED <<args, lvm, targets, luns, acls, saved, outdir, machines, snapfs, log>>
    /\ UNCHANGED host

\* create_iscsi_target: targetcli /iscsi create, then
\* transact(rollback=remove_iscsi_target)
create_iscsi_target ==
    /\ pc = "create_iscsi_target"
    /\ \/ /\ targets' = targets \cup {Target(TS)}
          /\ stack' = Push(stack, "create_iscsi_target", Target(TS))
          /\ pc' = "attach_backstore_to_iscsi_target"
          /\ UNCHANGED <<exc, hist>>
       \/ /\ pc' = "unwind"
          /\ exc' = "CalledProcessError"
          /\ hist' = Raised(hist, stack)
          /\ UNCHANGED <<targets, stack>>
    /\ UNCHANGED <<args, lvm, backstores, luns, acls, saved, outdir, machines, snapfs, log>>
    /\ UNCHANGED host

\* attach_backstore_to_iscsi_target, inside the target's scope
attach_backstore_to_iscsi_target ==
    /\ pc = "attach_backstore_to_iscsi_target"
    /\ \/ /\ luns' = luns \cup {Target(TS)}
          /\ pc' = "configure_authentication"
          /\ UNCHANGED <<exc, hist>>
       \/ /\ pc' = "unwind"
          /\ exc' = "CalledProcessError"
          /\ hist' = Raised(hist, stack)
          /\ UNCHANGED luns
    /\ UNCHANGED <<stack, args, lvm, backstores, targets, acls, saved, outdir, machines, snapfs, log>>
    /\ UNCHANGED host

\* configure_authentication: set attribute generate_node_acls=1
configure_authentication ==
    /\ pc = "configure_authentication"
    /\ \/ /\ acls' = acls \cup {Target(TS)}
          /\ pc' = "save_iscsi_config"
          /\ UNCHANGED <<exc, hist>>
       \/ /\ pc' = "unwind"
          /\ exc' = "CalledProcessError"
          /\ hist' = Raised(hist, stack)
          /\ UNCHANGED acls
    /\ UNCHANGED <<stack, args, lvm, backstores, targets, luns, saved, outdir, machines, snapfs, log>>
    /\ UNCHANGED host

\* targetcli saveconfig persists the live configuration
SavedConfig == backstores \cup targets

\* save_iscsi_config, the last statement of publish_to_iscsi before its yield
save_iscsi_config ==
    /\ pc = "save_iscsi_config"
    /\ \/ /\ saved' = SavedConfig
          /\ pc' = "generate_ipxe_config"
          /\ UNCHANGED <<exc, hist>>
       \/ /\ pc' = "unwind"
          /\ exc' = "CalledProcessError"
          /\ hist' = Raised(hist, stack)
          /\ UNCHANGED saved
    /\ UNCHANGED <<stack, args, lvm, backstores, targets, luns, acls, outdir, machines, snapfs, log>>
    /\ UNCHANGED host

\* create_iscsi_target: transact(rollback=remove_iscsi_target)
exit_create_iscsi_target ==
    /\ Closing("create_iscsi_target")
    /\ IF HandlerOf("create_iscsi_target", exc) = "rollback"
       THEN /\ \E ok \in HandlerOutcomes :
                  /\ targets' = IF ok THEN targets \ {NextToClose(stack).arg} ELSE targets
                  /\ luns' = IF ok THEN luns \ {NextToClose(stack).arg} ELSE luns
                  /\ acls' = IF ok THEN acls \ {NextToClose(stack).arg} ELSE acls
                  /\ exc' = TransactExit(exc, IF ok THEN NoExc ELSE "CalledProcessError")
                  /\ hist' = Noted(hist, ok, <<"remove_iscsi_target", "snapshot">>)
            /\ log' = Append(log, <<"remove_iscsi_target", "snapshot">>)
       ELSE UNCHANGED <<targets, luns, acls, exc, hist, log>>
    /\ stack' = Remaining(stack)
    /\ UNCHANGED <<pc, args, lvm, backstores, saved, outdir, machines, snapfs>>
    /\ UNCHANGED host

\* create_iscsi_backstore: transact(rollback=remove_iscsi_backstore)
exit_create_iscsi_backstore ==
    /\ Closing("create_iscsi_backstore")
    /\ IF HandlerOf("create_iscsi_backstore", exc) = "rollback"
       THEN /\ \E ok \in HandlerOutcomes :
                  /\ backstores' = IF ok THEN backstores \ {NextToClose(stack).arg} ELSE backstores
                  /\ exc' = TransactExit(exc, IF ok THEN NoExc ELSE "CalledProcessError")
                  /\ hist' = Noted(hist, ok, <<"remove_iscsi_backstore", "snapshot">>)
            /\ log' = Append(log, <<"remove_iscsi_backstore", "snapshot">>)
       ELSE UNCHANGED <<backstores, exc, hist, log>>
    /\ stack' = Remaining(stack)
    /\ UNCHANGED <<pc, args, lvm, targets, luns, acls, saved, outdir, machines, snapfs>>
    /\ UNCHANGED host

\* a publish_to_iscsi without its outer scope: nothing is saved on rollback
exit_publish_to_iscsi_Unsaved ==
    /\ Closing("publish_to_iscsi")
    /\ stack' = Remaining(stack)
    /\ UNCHANGED <<pc, exc, args, lvm, iscsi, outdir, machines, snapfs, log, hist>>
    /\ UNCHANGED host

\* publish_to_iscsi: transact(rollback=save_iscsi_config)
exit_publish_to_iscsi ==
    /\ Closing("publish_to_iscsi")
    /\ IF HandlerOf("publish_to_iscsi", exc) = "rollback"
       THEN /\ \E ok \in HandlerOutcomes :
                  /\ saved' = IF ok THEN SavedConfig ELSE saved
                  /\ exc' = TransactExit(exc, IF ok THEN NoExc ELSE "CalledProcessError")
                  /\ hist' = Noted(hist, ok, <<"save_iscsi_config", "targetcli">>)
            /\ log' = Append(log, <<"save_iscsi_config", "targetcli">>)
       ELSE UNCHANGED <<saved, exc, hist, log>>
    /\ stack' = Remaining(stack)
    /\ UNCHANGED <<pc, args, lvm, backstores, targets, luns, acls, outdir, machines, snapfs>>
    /\ UNCHANGED host

(* ------------------------------------------------------------------ *)
(* add_snapshot: boot configuration, test boot, promotion              *)
(* ------------------------------------------------------------------ *)

\* generate_ipxe_config: write <OUTPUT>/<target>.ipxe, then
\* transact(rollback=os.remove(config_path))
generate_ipxe_config ==
    /\ pc = "generate_ipxe_config"
    /\ \/ /\ ipxefiles' = ipxefiles \cup {IpxeConfig(TS)}
          /\ stack' = Push(stack, "generate_ipxe_config", IpxeConfig(TS))
          /\ pc' = "reset_back_on_failure"
          /\ UNCHANGED <<exc, hist>>
       \/ /\ pc' = "unwind"
          /\ exc' = "OSError"
          /\ hist' = Raised(hist, stack)
          /\ UNCHANGED <<ipxefiles, stack>>
    /\ UNCHANGED <<args, lvm, iscsi, dirs, kernels, links, machines, snapfs, log>>
    /\ UNCHANGED host

exit_generate_ipxe_config ==
    /\ Closing("generate_ipxe_config")
    /\ IF HandlerOf("generate_ipxe_config", exc) = "rollback"
       THEN /\ ipxefiles' = ipxefiles \ {NextToClose(stack).arg}
            /\ exc' = TransactExit(exc, IF NextToClose(stack).arg \in ipxefiles THEN NoExc
                                        ELSE "FileNotFoundError")
            /\ log' = Append(log, <<"os.remove", "ipxe_config">>)
       ELSE UNCHANGED <<ipxefiles, exc, log>>
    /\ stack' = Remaining(stack)
    /\ UNCHANGED <<pc, args, lvm, iscsi, dirs, kernels, links, machines, snapfs, hist>>
    /\ UNCHANGED host

\* reset_back_on_failure: transact(rollback=vmm.reset(vm))
reset_back_on_failure ==
    /\ pc = "reset_back_on_failure"
    /\ stack' = Push(stack, "reset_back_on_failure", "test_vm")
    /\ pc' = "saved_config_test"
    /\ UNCHANGED <<exc, args, lvm, iscsi, outdir, machines, snapfs, log, hist>>
    /\ UNCHANGED host

exit_reset_back_on_failure ==
    /\ Closing("reset_back_on_failure")
    /\ IF HandlerOf("reset_back_on_failure", exc) = "rollback"
       THEN /\ \E ok \in HandlerOutcomes :
                  /\ resets' = IF ok THEN resets + 1 ELSE resets
                  /\ testhost' = IF ok THEN "down" ELSE testhost
                  /\ exc' = TransactExit(exc, IF ok THEN NoExc ELSE "CalledProcessError")
                  /\ hist' = Noted(hist, ok, <<"vmm.reset", "test_vm">>)
            /\ log' = Append(log, <<"vmm.reset", "test_vm">>)
       ELSE UNCHANGED <<resets, testhost, exc, hist, log>>
    /\ stack' = Remaining(stack)
    /\ UNCHANGED <<sessions, pc, args, lvm, iscsi, outdir, refvm, snapfs>>
    /\ UNCHANGED host

\* the path published_ipxe_config publishes to
BootPath(testing) == IF testing THEN BootTestIpxe ELSE BootIpxe

\* saved_config(path) before its yield: a stale path.old that exists is
\* removed; a path that exists is renamed to path.old (over a dangling one)
SavedConfigEnter(l, path) ==
    LET old == OldPath(path)
        l1  == IF l[old] # Nil /\ l[old] \in ipxefiles THEN [l EXCEPT ![old] = Nil] ELSE l
    IN  IF l1[path] # Nil /\ l1[path] \in ipxefiles
        THEN [l1 EXCEPT ![old] = l1[path], ![path] = Nil]
        ELSE l1

\* a saved_config that leaves the files as they are when its body fails
SavedConfigRestore_Keeps(l, path) == l

\* saved_config(path) after its yield, with an exception in flight: restore
\* path from path.old if that exists, re-raise
SavedConfigRestore(l, path) ==
    LET old == OldPath(path)
    IN  IF l[old] # Nil /\ l[old] \in ipxefiles
        THEN [l EXCEPT ![path] = l[old], ![old] = Nil]
        ELSE l

\* saved_config(path) after its yield, without one: os.remove(old_path),
\* FileNotFoundError when there is none.  The links afterwards and the
\* exception raised.
SavedConfigCommit(l, path) ==
    LET old == OldPath(path)
    IN  IF l[old] # Nil
        THEN [links |-> [l EXCEPT ![old] = Nil], exc |-> NoExc]
        ELSE [links |-> l, exc |-> "FileNotFoundError"]

\* published_ipxe_config: saved_config(path) is entered
saved_config ==
    /\ pc \in {"saved_config_test", "saved_config_prod"}
    /\ LET path == BootPath(pc = "saved_config_test")
       IN  /\ links' = SavedConfigEnter(links, path)
           /\ stack' = Push(stack, "saved_config", path)
    /\ pc' = IF pc = "saved_config_test" THEN "symlink_test" ELSE "symlink_prod"
    /\ UNCHANGED <<exc, args, lvm, iscsi, ipxefiles, dirs, kernels, machines, snapfs, log, hist>>
    /\ UNCHANGED host

exit_saved_config ==
    /\ Closing("saved_config")
    /\ LET path == NextToClose(stack).arg
       IN  IF exc # NoExc
           THEN /\ links' = SavedConfigRestore(links, path)
                /\ log' = Append(log, IF path = BootIpxe THEN <<"restore", "boot.ipxe">>
                                      ELSE <<"restore", "boot-test.ipxe">>)
                /\ UNCHANGED <<exc, hist>>
           ELSE LET r == SavedConfigCommit(links, path)
                IN  /\ links' = r.links
                    /\ exc' = r.exc
                    /\ hist' = IF r.exc = NoExc THEN hist ELSE Raised(hist, Remaining(stack))
                    /\ UNCHANGED log
    /\ stack' = Remaining(stack)
    /\ UNCHANGED <<pc, args, lvm, iscsi, ipxefiles, dirs, kernels, machines, snapfs>>
    /\ UNCHANGED host

\* an add_snapshot that promotes without the test boot
AfterTestPublished_Unverified == "saved_config_prod"

\* add_snapshot: the statement after the test configuration is published
AfterTestPublished == "reboot_and_check_test_vm"

\* published_ipxe_config: transact(rollback=os.remove(path)) is entered,
\* then os.symlink(config, path), FileExistsError when path is there
\* (a dangling link that saved_config did not move away)
published_ipxe_config ==
    /\ pc \in {"symlink_test", "symlink_prod"}
    /\ LET path == BootPath(pc = "symlink_test")
           stk  == Push(stack, "published_ipxe_config", path)
       IN  /\ stack' = stk
           /\ IF links[path] = Nil
              THEN /\ links' = [links EXCEPT ![path] = IpxeConfig(TS)]
                   /\ pc' = IF pc = "symlink_test" THEN AfterTestPublished
                            ELSE "unwind"
                   /\ hist' = IF pc = "symlink_test" THEN hist
                              ELSE [hist EXCEPT !.prod_linked = TRUE]
                   /\ UNCHANGED exc
              ELSE /\ exc' = "FileExistsError"
                   /\ pc' = "unwind"
                   /\ hist' = Raised(hist, stk)
                   /\ UNCHANGED links
    /\ UNCHANGED <<args, lvm, iscsi, ipxefiles, dirs, kernels, machines, snapfs, log>>
    /\ UNCHANGED host

exit_published_ipxe_config ==
    /\ Closing("published_ipxe_config")
    /\ LET path == NextToClose(stack).arg
       IN  IF HandlerOf("published_ipxe_config", exc) = "rollback"
           THEN /\ links' = [links EXCEPT ![path] = Nil]
                /\ exc' = TransactExit(exc, IF links[path] # Nil THEN NoExc
                                            ELSE "FileNotFoundError")
                /\ log' = Append(log, IF path = BootIpxe THEN <<"os.remove", "boot.ipxe">>
                                      ELSE <<"os.remove", "boot-test.ipxe">>)
           ELSE UNCHANGED <<links, exc, log>>
    /\ stack' = Remaining(stack)
    /\ UNCHANGED <<pc, args, lvm, iscsi, ipxefiles, dirs, kernels, machines, snapfs, hist>>
    /\ UNCHANGED host

\* reboot_and_check_test_vm: if is_accessible(host) then reboot(host) (ssh,
\* exit code not looked at) else vmm.reset(vm)
reboot_and_check_test_vm ==
    /\ pc = "reboot_and_check_test_vm"
    /\ \E accessible \in BOOLEAN :
          IF accessible
          THEN /\ testhost' = "up-old"
               /\ pc' = "booted_properly"
               /\ hist' = [hist EXCEPT !.polls = 0, !.was_accessible = TRUE]
               /\ UNCHANGED <<resets, exc>>
          ELSE \/ /\ testhost' = "down"
                  /\ resets' = resets + 1
                  /\ pc' = "booted_properly"
                  /\ hist' = [hist EXCEPT !.polls = 0, !.was_accessible = FALSE]
                  /\ UNCHANGED exc
               \/ /\ testhost' = "down"
                  /\ pc' = "unwind"
                  /\ exc' = "CalledProcessError"
                  /\ hist' = Raised([hist EXCEPT !.was_accessible = FALSE], stack)
                  /\ UNCHANGED resets
    /\ UNCHANGED <<sessions, stack, args, lvm, iscsi, outdir, refvm, snapfs, log>>
    /\ UNCHANGED host

\* what the test host may have become since it was looked at last: still
\* up from before the request, down, or up again
HostProgress(h) ==
    CASE h = "up-old" -> {"up-old", "down", "up-new"}
      [] h = "down"   -> {"down", "up-new"}
      [] OTHER        -> {"up-new"}

\* what `cat /etc/timestamp` prints on the test host: a host that is up
\* from before the request still runs the previous snapshot
HostTimestamp(h) == IF h = "up-old" THEN PrevTS ELSE TS

\* a booted_properly that returns False for an unexpected timestamp
BootedProperly_Strict(h, readable) ==
    h # "down" /\ readable /\ HostTimestamp(h) = TimestampFile(TS)

\* booted_properly(host): False when the host is not accessible; True when
\* `ssh host cat /etc/timestamp` works, whatever it prints (a timestamp that
\* is not the expected one is only logged); None when it fails
BootedProperly(h, readable) == h # "down" /\ readable

\* one poll of wait_for(booted_properly, 180, 10); after a falsy poll and
\* the sleep, the next poll or Timeout.  hist.read: whether the cat of the
\* last poll worked, failed, or was not tried
booted_properly ==
    /\ pc = "booted_properly"
    /\ \E h \in HostProgress(testhost), readable \in BOOLEAN :
          LET polled == [hist EXCEPT !.polls = @ + 1,
                                     !.up_seen = @ \/ h # "down",
                                     !.read = IF h = "down" THEN "unreached"
                                              ELSE IF readable THEN "ok" ELSE "failed"]
          IN  /\ testhost' = h
              /\ IF BootedProperly(h, readable)
                 THEN /\ pc' = "saved_config_prod"
                      /\ hist' = [polled EXCEPT !.verified = TRUE, !.seen = h]
                      /\ UNCHANGED exc
                 ELSE \/ /\ hist.polls + 1 < MaxPolls
                         /\ pc' = "booted_properly"
                         /\ hist' = polled
                         /\ UNCHANGED exc
                      \/ /\ pc' = "unwind"
                         /\ exc' = "Timeout"
                         /\ hist' = Raised(polled, stack)
    /\ UNCHANGED <<sessions, stack, args, lvm, iscsi, outdir, refvm, resets, snapfs, log>>
    /\ UNCHANGED host

\* snapshot_stack is closed: add returns, or what was raised leaves it
add_snapshot ==
    /\ pc = "unwind"
    /\ stack = <<>>
    /\ pc' = IF exc = NoExc THEN "returned" ELSE "raised"
    /\ UNCHANGED <<stack, exc, args, lvm, iscsi, outdir, machines, snapfs, log, hist>>
    /\ UNCHANGED host

Next ==
    \/ check_preconditions
    \/ shutdown
    \/ vm_shut_down
    \/ wait_lv_closed
    \/ create_lvm_snapshot
    \/ vm_start
    \/ wait_ssh
    \/ volume_copy
    \/ copy_data
    \/ lvm_snapshot_final
    \/ snapshot_artifacts
    \/ get_disk_information
    \/ set_partition_name
    \/ partitions_exposed
    \/ chroot
    \/ mounted
    \/ copy_files
    \/ write_timestamp
    \/ run_chroot_script
    \/ publish_kernel_images
    \/ exit_mounted
    \/ exit_tmpdir
    \/ exit_partitions_exposed
    \/ fs_stack_closed
    \/ exit_snapshot_artifacts
    \/ exit_volume_copy
    \/ link_snapshot_copy
    \/ copy_data_link
    \/ exit_move_link
    \/ configure_caching
    \/ cache_record
    \/ lvconvert
    \/ exit_cache_record
    \/ exit_cache_volume
    \/ configure_caching_returns
    \/ publish_to_iscsi
    \/ create_iscsi_backstore
    \/ create_iscsi_target
    \/ attach_backstore_to_iscsi_target
    \/ configure_authentication
    \/ save_iscsi_config
    \/ exit_create_iscsi_target
    \/ exit_create_iscsi_backstore
    \/ exit_publish_to_iscsi
    \/ generate_ipxe_config
    \/ exit_generate_ipxe_config
    \/ reset_back_on_failure
    \/ exit_reset_back_on_failure
    \/ saved_config
    \/ exit_saved_config
    \/ published_ipxe_config
    \/ exit_published_ipxe_config
    \/ reboot_and_check_test_vm
    \/ booted_properly
    \/ add_snapshot

Spec == Init /\ [][Next]_vars

(* ------------------------------------------------------------------ *)
(* Properties of add                                                   *)
(* ------------------------------------------------------------------ *)

C2_BootIpxeRestored ==
    (pc = "raised" /\ hist.old_before = Nil) =>
        /\ links[BootIpxe] = hist.boot_before
        /\ links[OldPath(BootIpxe)] = Nil

\* C3: after an add that returns, boot.ipxe is a symlink to the ipxe file
\* of this run's target, the promoted LV and its target exist, both kernel
\* images are in the artifacts directory, and the timestamp written into
\* the snapshot is the one embedded in the LV's base name.
C3_SuccessfulAddPublishes ==
    pc = "returned" =>
        /\ links[BootIpxe] = IpxeConfig(TS)
        /\ IpxeConfig(TS) \in ipxefiles
        /\ VmSnapshot(TS) \in lvs
        /\ Target(TS) \in targets
        /\ \A i \in 1..Len(KernelImages) : <<Artifacts(TS), KernelImages[i]>> \in kernels
        /\ \E st \in stamps : st[1] = VmSnapshot(TS)
        /\ \A st \in stamps : st[1] = VmSnapshot(TS) => st[2] = TimestampOf(VmSnapshot(TS))

\* an add that returned over a previous publication
C3_Witness ==
    /\ pc = "returned"
    /\ hist.boot_before = IpxeConfig(PrevTS)
    /\ links[BootIpxe] = IpxeConfig(TS)

\* C4: every step that changes boot.ipxe is taken after
\* reboot_and_check_test_vm returned in this run, and the step that makes
\* it point to the new ipxe file finds boot-test.ipxe pointing to that
\* file; so a run whose verification raises never modifies boot.ipxe.
C4_PromotionOnlyAfterVerification ==
    [][links'[BootIpxe] # links[BootIpxe] =>
          /\ hist.verified
          /\ links'[BootIpxe] = IpxeConfig(TS) => links[BootTestIpxe] = IpxeConfig(TS)]_vars

\* the production symlink has been swapped to the new file after the test
\* boot was verified
C4_Witness ==
    /\ hist.verified
    /\ hist.prod_linked
    /\ links[BootIpxe] = IpxeConfig(TS)
    /\ links[BootTestIpxe] = IpxeConfig(TS)

\* boot.ipxe, if it exists, points to an ipxe file that exists and whose
\* iSCSI target and promoted-snapshot LV exist
BootConsistent(l) ==
    l[BootIpxe] # Nil =>
        \E ts \in {PrevTS, GoneTS, TS} :
            /\ l[BootIpxe] = IpxeConfig(ts)
            /\ IpxeConfig(ts) \in ipxefiles
            /\ Target(ts) \in targets
            /\ VmSnapshot(ts) \in lvs

\* C5 (as the specification states it, for runs that start from a
\* consistent boot.ipxe): at the end of every add, returned or raised,
\* boot.ipxe is consistent.
C5_BootNeverInconsistent ==
    (/\ pc \in {"returned", "raised"}
     /\ hist.boot_before \in {Nil, IpxeConfig(PrevTS)})
    => BootConsistent(links)

\* what a boot path pointed to when the run began
Before(path) == IF path = BootIpxe THEN hist.boot_before ELSE hist.test_before

\* C14: a saved_config(path) scope that was entered with an existing path,
\* with or without a stale path.old.  When it is left without an exception,
\* path.old is gone, path is the link its body made and nothing is raised;
\* when it is left with one, path is again what it was before the run,
\* path.old is gone and the exception goes on.  A run that returns leaves
\* both boot paths on the new file and no .old file.
C14_SavedConfigScope ==
    /\ [][(/\ pc = "unwind"
            /\ stack # <<>>
            /\ NextToClose(stack).scope = "saved_config"
            /\ Before(NextToClose(stack).arg) \in ipxefiles)
           => LET path == NextToClose(stack).arg
              IN  /\ links'[OldPath(path)] = Nil
                  /\ exc' = exc
                  /\ links'[path] = IF exc = NoExc THEN IpxeConfig(TS) ELSE Before(path)]_vars
    /\ [](pc = "returned" =>
            \A path \in {BootIpxe, BootTestIpxe} :
               links[path] = IpxeConfig(TS) /\ links[OldPath(path)] = Nil)

\* the test boot failed in a run that found boot-test.ipxe and a stale
\* boot-test.ipxe.old: the link is back and the .old file is gone
C14_Witness ==
    /\ pc = "raised"
    /\ hist.raised_at = "booted_properly"
    /\ hist.old_before = IpxeConfig(PrevTS)
    /\ hist.test_before = IpxeConfig(PrevTS)
    /\ links[BootTestIpxe] = IpxeConfig(PrevTS)
    /\ links[OldPath(BootTestIpxe)] = Nil

\* the statements of configure_caching
InCaching == {"configure_caching", "cache_record", "lvconvert", "cache_exit"}

\* C15: configure_caching never raises: it always goes on to the statement
\* after it, with no exception in flight.  Without a cache config it issues
\* no command and makes nothing.  When a step inside failed, the record is
\* deleted before the cache LV is removed, the record is gone and, unless
\* that lvremove failed, so is the cache LV.
C15_CachingNeverFatal ==
    /\ [][(pc \in InCaching) => (pc' \in InCaching \cup {"publish_to_iscsi"})]_vars
    /\ [](pc = "publish_to_iscsi" => exc = NoExc /\ hist.raised_at = "")
    /\ [](~args.cache_config =>
            /\ CacheLv(TS) \notin lvs /\ records = {} /\ cached = {}
            /\ \A i \in 1..Len(log) :
                  log[i] \notin {<<"delete_cache_record", "snapshot">>, <<"remove_lv", "cache">>})
    /\ []((pc = "publish_to_iscsi" /\ args.cache_config /\ VmSnapshot(TS) \notin cached) =>
            /\ records = {}
            /\ CacheLv(TS) \in lvs => <<"remove_lv", "cache">> \in hist.failed
            /\ \A i, j \in 1..Len(log) :
                  (log[i] = <<"remove_lv", "cache">> /\ log[j] = <<"delete_cache_record", "snapshot">>)
                  => j < i)

\* lvconvert failed: record and cache LV were made and are gone again, and
\* add goes on to publish the volume without a cache
C15_Witness ==
    /\ pc = "publish_to_iscsi"
    /\ args.cache_config
    /\ \E i, j \in 1..Len(log) :
          /\ i < j
          /\ log[i] = <<"delete_cache_record", "snapshot">>
          /\ log[j] = <<"remove_lv", "cache">>
    /\ hist.failed = {}
    /\ CacheLv(TS) \notin lvs
    /\ records = {}
    /\ exc = NoExc

\* the test-boot verifier timed out and no poll of it found the test host
\* reachable
VerifierNeverReached ==
    /\ hist.raised_at = "booted_properly"
    /\ ~hist.up_seen

\* C22: when add has raised because the test-boot verifier timed out
\* without ever finding the test host reachable, and no rollback command
\* failed, the test VM was reset exactly once in the run, boot-test.ipxe
\* points to what it pointed to before and boot.ipxe is what it was.
C22_ResetOnceOnVerifierTimeout ==
    (pc = "raised" /\ VerifierNeverReached /\ hist.hfails = 0) =>
        /\ resets = 1
        /\ links[BootTestIpxe] = hist.test_before
        /\ links[BootIpxe] = hist.boot_before

\* the handlers that ran since the first exception of the run
RollbackLog == SubSeq(log, hist.logged + 1, Len(log))

\* what the exit of an open scope runs with an exception in flight
UndoOf(s) ==
    CASE s.scope = "vm_shut_down" -> <<<<"vmm.start", "ref_vm">>>>
      [] s.scope = "lvm_snapshot" -> <<<<"remove_lv", "lvm_snapshot">>>>
      [] s.scope = "volume_copy" ->
             <<<<"remove_lv", IF s.arg = VmSnapshot(TS) THEN "snapshot" ELSE "copy">>>>
      [] s.scope = "snapshot_artifacts" -> <<<<"rmtree", "artifacts">>>>
      [] s.scope = "partitions_exposed" -> <<<<"cleanup_kpartx", "snapshot">>>>
      [] s.scope = "tmpdir" -> <<<<"rmtree", "snapshot_root_">>>>
      [] s.scope = "mounted" -> <<<<"umount", s.arg>>>>
      [] s.scope = "publish_to_iscsi" -> <<<<"save_iscsi_config", "targetcli">>>>
      [] s.scope = "create_iscsi_backstore" -> <<<<"remove_iscsi_backstore", "snapshot">>>>
      [] s.scope = "create_iscsi_target" -> <<<<"remove_iscsi_target", "snapshot">>>>
      [] s.scope = "generate_ipxe_config" -> <<<<"os.remove", "ipxe_config">>>>
      [] s.scope = "reset_back_on_failure" -> <<<<"vmm.reset", "test_vm">>>>
      [] s.scope = "saved_config" ->
             <<<<"restore", IF s.arg = BootIpxe THEN "boot.ipxe" ELSE "boot-test.ipxe">>>>
      [] s.scope = "published_ipxe_config" ->
             <<<<"os.remove", IF s.arg = BootIpxe THEN "boot.ipxe" ELSE "boot-test.ipxe">>>>
      [] OTHER -> <<>>

RECURSIVE ReverseUndo(_)
\* the undo actions of the scopes in stk, last entered first
ReverseUndo(stk) ==
    IF stk = <<>> THEN <<>>
    ELSE UndoOf(stk[Len(stk)]) \o ReverseUndo(SubSeq(stk, 1, Len(stk) - 1))

OpenedAtFailure(scope) ==
    {i \in 1..Len(hist.opened) : hist.opened[i].scope = scope}

\* the positions of a handler in the rollback log
Positions(entry) == {i \in 1..Len(RollbackLog) : RollbackLog[i] = entry}

C25_FsReleasedBeforePublication ==
    pc \in {"configure_caching", "publish_to_iscsi"} =>
        /\ mounts = {}
        /\ VmSnapshot(TS) \notin mapped

RECURSIVE Reverse(_)
Reverse(s) == IF s = <<>> THEN <<>> ELSE Append(Reverse(Tail(s)), Head(s))

\* the mount points of the open mounted scopes, in the order of entry
MountedNow == [i \in 1..Len(Mounted(stack)) |-> Mounted(stack)[i].arg]

\* the mount points umount was called for, in the order of the calls
Unmounted ==
    LET calls == SelectSeq(log, LAMBDA e : e[1] = "umount")
    IN  [i \in 1..Len(calls) |-> calls[i][2]]

Starts == Cardinality({i \in 1..Len(log) : log[i] = <<"vmm.start", "ref_vm">>})

\* C28: the body of vm_shut_down runs only after shutdown was sent and the
\* VM was seen not running.  Whenever the body is left, with or without an
\* exception, virsh start is called, once; when it exits zero the VM runs
\* and the wait for SSH follows.  A Timeout of that wait is the exception
\* add raises, also when the body had made the snapshot without failure.
C28_VmStartedOnEveryExit ==
    /\ [](/\ (\E i \in 1..Len(stack) : stack[i].scope = "vm_shut_down") =>
                /\ hist.shutdown_sent /\ hist.observed_stopped
                /\ pc \in {"wait_lv_closed", "create_lvm_snapshot", "vm_start"}
                /\ Starts = 0
          /\ (hist.observed_stopped
              /\ pc \notin {"wait_lv_closed", "create_lvm_snapshot", "vm_start"}) =>
                Starts = 1
          /\ pc = "wait_ssh" => refvm = "running"
          /\ hist.raised_at = "wait_ssh" =>
                /\ pc \in {"unwind", "raised"}
                /\ exc = "Timeout"
                /\ hist.lvm_snapshot_created)
    /\ [][pc = "vm_start" =>
             /\ log' = Append(log, <<"vmm.start", "ref_vm">>)
             /\ \/ pc' = "wait_ssh" /\ exc' = exc
                \/ pc' = "unwind" /\ exc' = "CalledProcessError"]_vars

\* the body made the COW snapshot, the VM was started and the wait for its
\* SSH timed out: add raised Timeout
C28_Witness ==
    /\ pc = "raised"
    /\ hist.raised_at = "wait_ssh"
    /\ exc = "Timeout"
    /\ hist.lvm_snapshot_created
    /\ Starts = 1

\* C29: lvcreate -s is issued only when the reference VM was seen not
\* running and its LV not open, with the VM still stopped and virsh start
\* not yet called; the promoted copy is created and dd runs only after
\* virsh start was called, the VM runs and the wait for its SSH has ended
\* without Timeout.
C29_SnapshotWhileVmDown ==
    /\ pc = "create_lvm_snapshot" =>
          /\ hist.observed_stopped /\ hist.observed_closed
          /\ refvm = "stopped"
          /\ Starts = 0
          /\ LvmSnapshot(TS) \notin lvs
    /\ LvmSnapshot(TS) \in lvs => hist.observed_stopped /\ hist.observed_closed
    /\ (pc \in {"volume_copy", "copy_data"} \/ VmSnapshot(TS) \in lvs) =>
          /\ hist.lvm_snapshot_created
          /\ Starts = 1
          /\ refvm = "running"
          /\ hist.raised_at # "wait_ssh"

\* dd is about to copy the COW snapshot to the promoted copy; the VM runs
C29_Witness ==
    /\ pc = "copy_data"
    /\ LvmSnapshot(TS) \in lvs
    /\ VmSnapshot(TS) \in lvs
    /\ refvm = "running"
    /\ Starts = 1

\* C30: the verifier sends reboot over ssh (no reset) when the test host
\* is reachable at its start and else calls virsh reset; a poll succeeds
\* exactly when the host is reachable and the cat of /etc/timestamp works,
\* whatever timestamp it prints, and the verifier returns with that poll;
\* a poll is falsy only when the host was not reached or the cat failed,
\* and then the next poll or Timeout follows.
C30_VerifierAcceptsAnyTimestamp ==
    /\ [](hist.verified => hist.read = "ok" /\ hist.seen \in {"up-old", "up-new"})
    /\ [][pc = "reboot_and_check_test_vm" =>
             IF hist'.was_accessible
             THEN resets' = resets /\ pc' = "booted_properly"
             ELSE \/ resets' = resets + 1 /\ pc' = "booted_properly"
                  \/ resets' = resets /\ pc' = "unwind" /\ exc' = "CalledProcessError"]_vars
    /\ [][pc = "booted_properly" =>
             /\ hist'.read \in {"ok", "failed", "unreached"}
             /\ hist'.read = "unreached" <=> testhost' = "down"
             /\ hist'.read = "ok" <=> pc' = "saved_config_prod"
             /\ hist'.read = "ok" => hist'.verified /\ exc' = NoExc /\ hist'.seen = testhost'
             /\ hist'.read # "ok" =>
                   /\ ~hist'.verified
                   /\ \/ pc' = "booted_properly" /\ exc' = NoExc
                      \/ pc' = "unwind" /\ exc' = "Timeout"]_vars

\* the test host answered before it went down for the reboot: the timestamp
\* read is the previous one, not the expected one, and the verifier returned
C30_Witness ==
    /\ pc = "saved_config_prod"
    /\ hist.verified
    /\ hist.was_accessible
    /\ hist.seen = "up-old"
    /\ HostTimestamp(hist.seen) # TimestampFile(TS)

\* the -copy LV of this run was made before the first exception was raised
CopyMadeAtFailure ==
    \E i \in 1..Len(hist.opened) :
        hist.opened[i] = [scope |-> "volume_copy", arg |-> SnapshotCopy(TS)]

\* C31, first half: the deployment link points nowhere else than where it
\* pointed before the run until the test boot was verified, boot.ipxe was
\* promoted and no exception is pending; when add has raised after the copy
\* was made (no rollback command failing) the link is as before the run and
\* the -copy LV is gone.
C31_LinkUnchangedUnlessCommitted ==
    /\ links[CopyTo] # Nil =>
          /\ links[CopyTo] = SnapshotCopy(TS)
          /\ hist.verified /\ hist.prod_linked /\ exc = NoExc
          /\ pc \in {"unwind", "returned"}
    /\ (pc = "raised" /\ CopyMadeAtFailure /\ hist.hfails = 0) =>
          /\ links[CopyTo] = Nil
          /\ SnapshotCopy(TS) \notin lvs

\* a run that made the copy, failed at the test boot and removed the copy
C31_RolledBack ==
    /\ pc = "raised"
    /\ CopyMadeAtFailure
    /\ hist.raised_at = "booted_properly"
    /\ hist.hfails = 0
    /\ links[NewPath(CopyTo)] # Nil

\* C31: with --link-snapshot-copy the deployment link is re-pointed to the
\* new -copy LV only when the whole add transaction commits; when add fails
\* after the copy was made the link is unchanged and the -copy LV removed;
\* after every successful add the link points to the new copy, also when a
\* stale <link>.new existed.
C31_LinkFollowsCommit ==
    /\ C31_LinkUnchangedUnlessCommitted
    /\ (pc = "returned" /\ args.link_snapshot_copy) =>
          links[CopyTo] = SnapshotCopy(TS)

\* the last half alone, without a stale <link>.new
C31_LinkedWithoutStaleNew ==
    (pc = "returned" /\ args.link_snapshot_copy /\ links[NewPath(CopyTo)] = Nil) =>
        links[CopyTo] = SnapshotCopy(TS)

\* C32: the cache record and the cache LV follow the promoted snapshot: in
\* every state of add in which no rollback command has failed, a cache
\* record of this run's snapshot exists only while its snapshot LV exists,
\* and so does its cache LV; the rollback of an add that fails after caching
\* was configured removes them with the snapshot LV.
C32_CacheFollowsSnapshot ==
    hist.hfails = 0 =>
        /\ basename(VmSnapshot(TS)) \in records => VmSnapshot(TS) \in lvs
        /\ CacheLv(TS) \in lvs => VmSnapshot(TS) \in lvs

\* the cache LV half alone
C32_CacheLvFollowsSnapshot ==
    hist.hfails = 0 => (CacheLv(TS) \in lvs => VmSnapshot(TS) \in lvs)

\* C33: a saved_config(path) scope that was entered when path did not exist
\* and whose body succeeded (it is closed with no exception in flight)
\* exits without raising and leaves the newly created path in place.
C33_FreshPathScopeExitsNormally ==
    [][(/\ Closing("saved_config")
        /\ exc = NoExc
        /\ (IF NextToClose(stack).arg = BootIpxe THEN hist.boot_before
            ELSE hist.test_before) = Nil)
       => (/\ exc' = NoExc
           /\ links'[NextToClose(stack).arg] = IpxeConfig(TS))]_vars

\* the consequence alone: add never raises from the exit of its scopes, so
\* a run in which every external command succeeds returns
C33_NoFailureWhileCommitting ==
    pc = "raised" => hist.raised_at # "unwind"

\* C34: whenever add has sent `shutdown now` to the reference host, virsh
\* start has been called for the reference VM by the time add returns or
\* raises, also when the 180 s wait for the VM to stop timed out.
C34_StartedAfterShutdown ==
    (pc \in {"returned", "raised"} /\ hist.shutdown_sent) => Starts >= 1

\* the same for the runs in which the VM was seen stopped within the 180 s
C34_StartedWhenSeenStopped ==
    (pc \in {"returned", "raised"} /\ hist.observed_stopped) => Starts = 1

\* C35: reboot_and_check_test_vm returns only when the poll that it accepted
\* reached the test host after the host had gone down for the reboot or
\* reset that was requested; a host that still answers from before the
\* request is not accepted.
C35_AcceptedOnlyAfterReboot ==
    hist.verified => hist.seen = "up-new"

\* the same for a test host that was not reachable at the start and was reset
C35_AcceptedAfterReset ==
    (hist.verified /\ ~hist.was_accessible) => hist.seen = "up-new"

\* C9 (as the specification states it): in every add in which lvcreate -s
\* made the COW snapshot, that LV no longer exists when add returns or
\* raises; the lvremove of the scope's final action is taken to succeed.
C9_CowSnapshotAlwaysRemoved ==
    (/\ pc \in {"returned", "raised"}
     /\ hist.lvm_snapshot_created
     /\ <<"remove_lv", "lvm_snapshot">> \notin hist.failed)
    => LvmSnapshot(TS) \notin lvs

(* ------------------------------------------------------------------ *)
(* transact on its own: a client that nests transact scopes built with *)
(* any handlers, whose prepare, body and handlers may each raise       *)
(* ------------------------------------------------------------------ *)

\* the handler arguments the assertion of transact lets through: final
\* only without commit and rollback
TransactArgs ==
    {a \in [final : BOOLEAN, commit : BOOLEAN, rollback : BOOLEAN] :
        a.final => ~a.commit /\ ~a.rollback}

\* what a prepare function may return
PrepareValues == {"lv", "dir"}

\* what the body of a scope may raise
BodyFailures == {"CalledProcessError", "Timeout"}

\* the state of the system, which the transact machine leaves alone
world == <<args, lvm, iscsi, outdir, machines, snapfs>>

InitTransact ==
    /\ pc = "body"
    /\ stack = <<>>
    /\ exc = NoExc
    /\ args = [link_snapshot_copy |-> FALSE, cache_config |-> FALSE]
    /\ lvs = {RefLv}
    /\ cached = {}
    /\ records = {}
    /\ backstores = {}
    /\ targets = {}
    /\ luns = {}
    /\ acls = {}
    /\ saved = {}
    /\ ipxefiles = {}
    /\ dirs = {}
    /\ kernels = {}
    /\ links = [p \in LinkPaths \cup {CopyTo, NewPath(CopyTo)} |-> Nil]
    /\ refvm = "running"
    /\ testhost = "up-old"
    /\ resets = 0
    /\ sessions = <<>>
    /\ mapped = {}
    /\ mounts = {}
    /\ tmpdir = FALSE
    /\ pv = "absent"
    /\ lock = 0
    /\ stamps = {}
    /\ log = <<>>
    /\ hist = [prepared |-> <<>>, prepare_raised |-> {}, exits |-> <<>>]

\* transact(prepare, final, commit, rollback) up to its yield: the
\* assertion, then rv = prepare_fn(), None without a prepare; an exception
\* of prepare leaves transact before its try statement
transact ==
    /\ pc = "body"
    /\ Len(stack) < MaxDepth
    /\ \E a \in TransactArgs, rv \in PrepareValues \cup {"None", "raises"} :
          IF rv = "raises"
          THEN /\ exc' = "PrepareError"
               /\ pc' = "exit"
               /\ hist' = [hist EXCEPT !.prepare_raised = @ \cup {Len(stack) + 1}]
               /\ UNCHANGED stack
          ELSE /\ stack' = Push(stack, "transact",
                                [final |-> a.final, commit |-> a.commit,
                                 rollback |-> a.rollback, value |-> rv])
               /\ hist' = [hist EXCEPT !.prepared = Append(@, rv)]
               /\ UNCHANGED <<pc, exc>>
    /\ UNCHANGED <<world, log>>
    /\ UNCHANGED host

\* the body of the innermost open scope raises, before it has entered a
\* further scope or after that one was closed
body_raises ==
    /\ \/ pc = "body"
       \/ pc = "exit" /\ exc = NoExc /\ stack # <<>>
    /\ exc' \in BodyFailures
    /\ pc' = "exit"
    /\ UNCHANGED <<stack, world, log, hist>>
    /\ UNCHANGED host

\* the body of the innermost scope ends
body_returns ==
    /\ pc = "body"
    /\ pc' = "exit"
    /\ UNCHANGED <<stack, exc, world, log, hist>>
    /\ UNCHANGED host

\* transact after its yield: the except BaseException branch or the else
\* branch calls the handler with (rv, e) or (rv, None); the handler may raise
transact_exit ==
    /\ pc = "exit"
    /\ stack # <<>>
    /\ LET s == Top(stack).arg
           h == TransactHandler(s.final, s.commit, s.rollback, exc # NoExc)
       IN  \E raises \in (IF h = "none" THEN {FALSE} ELSE BOOLEAN) :
              /\ log' = IF h = "none" THEN log
                        ELSE Append(log, [depth |-> Len(stack), handler |-> h,
                                          value |-> s.value, err |-> exc,
                                          raised |-> raises])
              /\ exc' = TransactExit(exc, IF raises THEN "HandlerError" ELSE NoExc)
              /\ hist' = [hist EXCEPT !.exits =
                             Append(@, [depth |-> Len(stack), final |-> s.final,
                                        commit |-> s.commit, rollback |-> s.rollback,
                                        left_with |-> exc, propagated |-> exc'])]
    /\ stack' = Pop(stack)
    /\ UNCHANGED <<pc, world>>
    /\ UNCHANGED host

\* the outermost scope is closed
transact_done ==
    /\ pc = "exit"
    /\ stack = <<>>
    /\ pc' = "done"
    /\ UNCHANGED <<stack, exc, world, log, hist>>
    /\ UNCHANGED host

NextTransact ==
    \/ transact
    \/ body_raises
    \/ body_returns
    \/ transact_exit
    \/ transact_done

SpecTransact == InitTransact /\ [][NextTransact]_vars

\* the calls of the handlers of the scope at depth d
CallsOf(d) == SelectSeq(log, LAMBDA c : c.depth = d)

\* C7: a scope whose body exits with a failure E propagates E itself,
\* whether its handler raised or not; and a handler that raised does not
\* keep the handler of an enclosing scope from being called.
C7_HandlerNeverMasksFailure ==
    /\ \A i \in 1..Len(hist.exits) :
          hist.exits[i].left_with # NoExc =>
              hist.exits[i].propagated = hist.exits[i].left_with
    /\ \A i \in 1..Len(hist.exits) :
          LET x == hist.exits[i]
          IN  (/\ x.left_with # NoExc
               /\ x.final \/ x.rollback
               /\ \E c \in 1..Len(log) : log[c].raised /\ log[c].depth > x.depth)
              => Len(CallsOf(x.depth)) = 1

\* the handler of the inner scope raised while a failure was in flight, the
\* handler of the enclosing scope was called all the same, and the failure
\* of the body is what leaves
C7_Witness ==
    /\ pc = "done"
    /\ Len(log) = 2
    /\ log[1].raised
    /\ log[1].err \in BodyFailures
    /\ log[2].err = log[1].err
    /\ exc = log[1].err

\* C8: on normal exit the final-or-commit handler is called exactly once
\* with (value, None) and rollback is not called; on failure exit the
\* final-or-rollback handler is called exactly once with (value, err) and
\* commit is not called; value is what prepare returned; a scope whose
\* prepare raised has none of its handlers called.
C8_ExactlyOneHandler ==
    /\ \A i \in 1..Len(hist.exits) :
          LET x     == hist.exits[i]
              calls == CallsOf(x.depth)
              given == IF x.left_with = NoExc THEN x.final \/ x.commit
                       ELSE x.final \/ x.rollback
          IN  /\ Len(calls) = IF given THEN 1 ELSE 0
              /\ given =>
                    /\ calls[1].handler =
                          IF x.final THEN "final"
                          ELSE IF x.left_with = NoExc THEN "commit" ELSE "rollback"
                    /\ calls[1].value = hist.prepared[x.depth]
                    /\ calls[1].err = x.left_with
    /\ \A d \in hist.prepare_raised : CallsOf(d) = <<>>
    /\ \A c \in 1..Len(log) : log[c].depth <= Len(hist.prepared)

\* the commit handler of the inner scope was called on its normal exit and
\* the rollback handler of the enclosing scope on its failure exit, each
\* with the value of its own prepare
C8_Witness ==
    /\ pc = "done"
    /\ Len(log) = 2
    /\ log[1] = [depth |-> 2, handler |-> "commit", value |-> "dir", err |-> NoExc,
                 raised |-> FALSE]
    /\ log[2] = [depth |-> 1, handler |-> "rollback", value |-> "lv", err |-> "Timeout",
                 raised |-> FALSE]

(* ------------------------------------------------------------------ *)
(* clean: clean_snapshots and the steps of clean_snapshot              *)
(* ------------------------------------------------------------------ *)

\* the timestamps a snapshot may carry, in the order sorted() puts the
\* names made of them
Timestamps == <<GoneTS, PrevTS, TS>>

\* get_snapshots: sorted(glob(<origin>-at-*-snapshot))
get_snapshots ==
    SelectSeq(Timestamps, LAMBDA ts : VmSnapshot(ts) \in lvs)

\* str.strip of a line of the sessions file
Strip(line) == IF line \in {"", " ", "\n"} THEN "" ELSE line

\* get_dynamic_iscsi_sessions: [] without the file, else the stripped,
\* non-empty pieces between the NULs
get_dynamic_iscsi_sessions(target_name) ==
    IF target_name \notin targets \/ target_name \notin DOMAIN sessions
    THEN <<>>
    ELSE SelectSeq([i \in 1..Len(sessions[target_name]) |->
                        Strip(sessions[target_name][i])],
                   LAMBDA line : line # "")

\* a clean_snapshot that takes force for its default
SkipCleanup_Forced(found, force) == found # <<>> /\ force

\* clean_snapshot: `if sessions: ... if not force: return`
SkipCleanup(found, force) == found # <<>> /\ ~force

\* the greatest of a set of timestamps
Latest(S) ==
    Timestamps[CHOOSE i \in 1..Len(Timestamps) :
                   /\ Timestamps[i] \in S
                   /\ \A j \in (i + 1)..Len(Timestamps) : Timestamps[j] \notin S]

\* what a snapshot of the initial state may look like: published and in
\* use, published and unused, or a bare LV a previous clean left behind
Profiles == {"in-use", "unused", "unused-newline", "bare"}

InitClean ==
    /\ pc = "clean_snapshots"
    /\ stack = <<>>
    /\ exc = NoExc
    /\ args \in [force_old : BOOLEAN, force_latest : BOOLEAN, cache_config : BOOLEAN]
    \* with every snapshot: nothing more, a -copy LV and an attached cache
    \* with its record, or a -copy LV and a cache LV that is not attached
    /\ \E n \in 0..Len(Timestamps), extras \in {"none", "cached", "detached"},
          profile \in [{Timestamps[i] : i \in 1..Len(Timestamps)} -> Profiles] :
          LET present   == {Timestamps[i] : i \in (Len(Timestamps) - n + 1)..Len(Timestamps)}
              published == {ts \in present : profile[ts] # "bare"}
          IN  /\ \A ts \in {Timestamps[i] : i \in 1..Len(Timestamps)} \ present :
                    profile[ts] = "bare"
              /\ lvs = {RefLv} \cup {VmSnapshot(ts) : ts \in present}
                       \cup (IF extras # "none"
                             THEN {SnapshotCopy(ts) : ts \in present}
                                  \cup {CacheLv(ts) : ts \in present}
                             ELSE {})
              /\ cached = IF extras = "cached" THEN {VmSnapshot(ts) : ts \in present} ELSE {}
              /\ records = IF extras # "none" THEN {basename(VmSnapshot(ts)) : ts \in present}
                           ELSE {}
              /\ backstores = {Backstore(ts) : ts \in published}
              /\ targets = {Target(ts) : ts \in published}
              /\ luns = targets
              /\ acls = targets
              /\ saved = backstores \cup targets
              /\ ipxefiles = {IpxeConfig(ts) : ts \in published}
              /\ dirs = {Artifacts(ts) : ts \in published}
              /\ kernels = {<<Artifacts(ts), KernelImages[i]>> : ts \in published, i \in 1..2}
              /\ sessions = [t \in targets |->
                               LET ts == CHOOSE x \in published : Target(x) = t
                               IN  CASE profile[ts] = "in-use" -> ClientSession
                                     [] profile[ts] = "unused" -> <<"">>
                                     [] OTHER -> <<"\n">>]
              /\ stamps = {<<VmSnapshot(ts), ts>> : ts \in present}
              /\ links = [p \in LinkPaths \cup {CopyTo, NewPath(CopyTo)} |->
                            IF p \in {BootIpxe, BootTestIpxe} /\ published # {}
                            THEN IpxeConfig(Latest(published))
                            ELSE Nil]
    /\ refvm = "running"
    /\ testhost = "up-old"
    /\ resets = 0
    /\ mapped = {}
    /\ mounts = {}
    /\ tmpdir = FALSE
    /\ pv = IF args.cache_config THEN "in-vg" ELSE "absent"
    /\ lock = 0
    /\ log = <<>>
    /\ hist = [snapshots |-> <<>>, todo |-> <<>>, skipped |-> {}, returned |-> {},
               hfails |-> 0, failed |-> {}, open |-> FALSE, aborted |-> ""]

\* the snapshot clean_snapshot is working on
Cur == Head(hist.todo)

\* clean_snapshot returns: clean_snapshots goes on with the next one
Returning(h) ==
    /\ hist' = [h EXCEPT !.todo = Tail(@), !.returned = @ \cup {Cur.ts}]
    /\ pc' = IF Len(h.todo) = 1 THEN "returned" ELSE "clean_snapshot"

\* a clean_snapshots that cleans the latest snapshot like the older ones
clean_snapshots_LatestAsOld ==
    /\ pc = "clean_snapshots"
    /\ LET snapshots == get_snapshots
           todo      == [i \in 1..Len(snapshots) |->
                            [ts |-> snapshots[i], force |-> args.force_old]]
       IN  /\ hist' = [hist EXCEPT !.snapshots = snapshots, !.todo = todo]
           /\ pc' = IF todo = <<>> THEN "returned" ELSE "clean_snapshot"
    /\ UNCHANGED <<stack, exc, world, log>>
    /\ UNCHANGED host

\* clean_snapshots: all but the last snapshot with force=args.force_old,
\* then the last one with force=True if --force-latest was given
clean_snapshots ==
    /\ pc = "clean_snapshots"
    /\ LET snapshots == get_snapshots
           old       == SubSeq(snapshots, 1, Len(snapshots) - 1)
           todo      == [i \in 1..Len(old) |-> [ts |-> old[i], force |-> args.force_old]]
                        \o (IF snapshots # <<>> /\ args.force_latest
                            THEN <<[ts |-> snapshots[Len(snapshots)], force |-> TRUE]>>
                            ELSE <<>>)
       IN  /\ hist' = [hist EXCEPT !.snapshots = snapshots, !.todo = todo]
           /\ pc' = IF todo = <<>> THEN "returned" ELSE "clean_snapshot"
    /\ UNCHANGED <<stack, exc, world, log>>
    /\ UNCHANGED host

\* clean_snapshot up to the session check
clean_snapshot ==
    /\ pc = "clean_snapshot"
    /\ IF SkipCleanup(get_dynamic_iscsi_sessions(
                          get_iscsi_target_name(get_iscsi_backstore_name(VmSnapshot(Cur.ts)))),
                      Cur.force)
       THEN Returning([hist EXCEPT !.skipped = @ \cup {Cur.ts}])
       ELSE /\ pc' = "clean_ipxe_config"
            /\ UNCHANGED hist
    /\ UNCHANGED <<stack, exc, world, log>>
    /\ UNCHANGED host

\* if os.path.exists(ipxe_config): os.remove(ipxe_config)
clean_ipxe_config ==
    /\ pc = "clean_ipxe_config"
    /\ IF IpxeConfig(Cur.ts) \in ipxefiles
       THEN /\ ipxefiles' = ipxefiles \ {IpxeConfig(Cur.ts)}
            /\ log' = Append(log, <<"os.remove ipxe_config", Cur.ts>>)
       ELSE UNCHANGED <<ipxefiles, log>>
    /\ pc' = "clean_artifacts"
    /\ UNCHANGED <<stack, exc, args, lvm, iscsi, dirs, kernels, links, machines, snapfs, hist>>
    /\ UNCHANGED host

\* if os.path.exists(artifacts): shutil.rmtree(artifacts)
clean_artifacts ==
    /\ pc = "clean_artifacts"
    /\ IF Artifacts(Cur.ts) \in dirs
       THEN /\ dirs' = dirs \ {Artifacts(Cur.ts)}
            /\ kernels' = {k \in kernels : k[1] # Artifacts(Cur.ts)}
            /\ log' = Append(log, <<"rmtree artifacts", Cur.ts>>)
       ELSE UNCHANGED <<dirs, kernels, log>>
    /\ pc' = "remove_iscsi_target"
    /\ UNCHANGED <<stack, exc, args, lvm, iscsi, ipxefiles, links, machines, snapfs, hist>>
    /\ UNCHANGED host

\* targetcli ... delete <name>: exits non-zero when there is nothing of
\* that name (log_and_call raises CalledProcessError), else it may fail
DeleteOutcomes(present) == IF present THEN HandlerOutcomes ELSE {FALSE}

\* a remove_iscsi_target whose failure leaves clean_snapshot
remove_iscsi_target_Uncaught ==
    /\ pc = "remove_iscsi_target"
    /\ \E ok \in DeleteOutcomes(Target(Cur.ts) \in targets) :
          /\ targets' = IF ok THEN targets \ {Target(Cur.ts)} ELSE targets
          /\ luns' = IF ok THEN luns \ {Target(Cur.ts)} ELSE luns
          /\ acls' = IF ok THEN acls \ {Target(Cur.ts)} ELSE acls
          /\ hist' = IF Target(Cur.ts) \in targets
                     THEN Noted(hist, ok, <<"remove_iscsi_target", Cur.ts>>)
                     ELSE hist
          /\ pc' = IF ok THEN "remove_iscsi_backstore" ELSE "raised"
          /\ exc' = IF ok THEN exc ELSE "CalledProcessError"
    /\ log' = Append(log, <<"remove_iscsi_target", Cur.ts>>)
    /\ UNCHANGED <<stack, args, lvm, backstores, saved, outdir, machines, snapfs>>
    /\ UNCHANGED host

\* try: remove_iscsi_target(target_name); a failure is logged
remove_iscsi_target ==
    /\ pc = "remove_iscsi_target"
    /\ \E ok \in DeleteOutcomes(Target(Cur.ts) \in targets) :
          /\ targets' = IF ok THEN targets \ {Target(Cur.ts)} ELSE targets
          /\ luns' = IF ok THEN luns \ {Target(Cur.ts)} ELSE luns
          /\ acls' = IF ok THEN acls \ {Target(Cur.ts)} ELSE acls
          /\ hist' = IF Target(Cur.ts) \in targets
                     THEN Noted(hist, ok, <<"remove_iscsi_target", Cur.ts>>)
                     ELSE hist
    /\ log' = Append(log, <<"remove_iscsi_target", Cur.ts>>)
    /\ pc' = "remove_iscsi_backstore"
    /\ UNCHANGED <<stack, exc, args, lvm, backstores, saved, outdir, machines, snapfs>>
    /\ UNCHANGED host

\* try: remove_iscsi_backstore(backstore_name); a failure is logged
remove_iscsi_backstore ==
    /\ pc = "remove_iscsi_backstore"
    /\ \E ok \in DeleteOutcomes(Backstore(Cur.ts) \in backstores) :
          /\ backstores' = IF ok THEN backstores \ {Backstore(Cur.ts)} ELSE backstores
          /\ hist' = IF Backstore(Cur.ts) \in backstores
                     THEN Noted(hist, ok, <<"remove_iscsi_backstore", Cur.ts>>)
                     ELSE hist
    /\ log' = Append(log, <<"remove_iscsi_backstore", Cur.ts>>)
    /\ pc' = "clean_save_iscsi_config"
    /\ UNCHANGED <<stack, exc, args, lvm, targets, luns, acls, saved, outdir, machines, snapfs>>
    /\ UNCHANGED host

\* a clean_snapshot that does not persist the target configuration
clean_save_iscsi_config_Unsaved ==
    /\ pc = "clean_save_iscsi_config"
    /\ pc' = "cleanup_kpartx"
    /\ UNCHANGED <<stack, exc, world, log, hist>>
    /\ UNCHANGED host

\* save_iscsi_config(): its failure leaves clean_snapshot
clean_save_iscsi_config ==
    /\ pc = "clean_save_iscsi_config"
    /\ \E ok \in HandlerOutcomes :
          /\ saved' = IF ok THEN SavedConfig ELSE saved
          /\ hist' = Noted(hist, ok, <<"save_iscsi_config", Cur.ts>>)
          /\ pc' = IF ok THEN "cleanup_kpartx" ELSE "raised"
          /\ exc' = IF ok THEN exc ELSE "CalledProcessError"
    /\ log' = Append(log, <<"save_iscsi_config", Cur.ts>>)
    /\ UNCHANGED <<stack, args, lvm, backstores, targets, luns, acls, outdir, machines, snapfs>>
    /\ UNCHANGED host

\* cleanup_kpartx(name): RuntimeError when kpartx -d keeps failing
cleanup_kpartx ==
    /\ pc = "cleanup_kpartx"
    /\ \E ok \in HandlerOutcomes :
          /\ mapped' = IF ok THEN mapped \ {VmSnapshot(Cur.ts)} ELSE mapped
          /\ hist' = Noted(hist, ok, <<"cleanup_kpartx", Cur.ts>>)
          /\ pc' = IF ok THEN "delete_cache_record" ELSE "raised"
          /\ exc' = IF ok THEN exc ELSE "RuntimeError"
    /\ log' = Append(log, <<"cleanup_kpartx", Cur.ts>>)
    /\ UNCHANGED <<stack, args, lvm, iscsi, outdir, machines, mounts, tmpdir, stamps>>
    /\ UNCHANGED host

\* if cache_config: delete_cache_record(cache_config, name); a record file
\* that is not there is only logged
delete_cache_record ==
    /\ pc = "delete_cache_record"
    /\ IF args.cache_config
       THEN /\ records' = records \ {basename(VmSnapshot(Cur.ts))}
            /\ log' = Append(log, <<"delete_cache_record", Cur.ts>>)
       ELSE UNCHANGED <<records, log>>
    /\ pc' = "remove_snapshot_copy"
    /\ UNCHANGED <<stack, exc, args, lvs, cached, iscsi, outdir, machines, snapfs, hist>>
    /\ UNCHANGED host

\* if os.path.exists(copy_name): try: remove_lv(copy_name); a failure is logged
remove_snapshot_copy ==
    /\ pc = "remove_snapshot_copy"
    /\ IF SnapshotCopy(Cur.ts) \in lvs
       THEN /\ \E ok \in HandlerOutcomes :
                  /\ lvs' = IF ok THEN lvs \ {SnapshotCopy(Cur.ts)} ELSE lvs
                  /\ hist' = Noted(hist, ok, <<"remove_lv copy", Cur.ts>>)
            /\ log' = Append(log, <<"remove_lv copy", Cur.ts>>)
       ELSE UNCHANGED <<lvs, hist, log>>
    /\ pc' = "is_lv_open"
    /\ UNCHANGED <<stack, exc, args, cached, records, iscsi, outdir, machines, snapfs>>
    /\ UNCHANGED host

\* a clean_snapshot that does not look at what is_lv_open returns
is_lv_open_Ignored ==
    /\ pc = "is_lv_open"
    /\ \E open \in BOOLEAN :
          /\ (Backstore(Cur.ts) \in backstores \/ VmSnapshot(Cur.ts) \in mapped) => open
          /\ hist' = [hist EXCEPT !.open = open]
    /\ pc' = "remove_lv"
    /\ log' = Append(log, <<"is_lv_open", Cur.ts>>)
    /\ UNCHANGED <<stack, exc, world>>
    /\ UNCHANGED host

\* if is_lv_open(name): raise RuntimeError.  The LV is open while its
\* backstore is live or its partitions are mapped, and something else may
\* hold it.
is_lv_open ==
    /\ pc = "is_lv_open"
    /\ \E open \in BOOLEAN :
          /\ (Backstore(Cur.ts) \in backstores \/ VmSnapshot(Cur.ts) \in mapped) => open
          /\ hist' = [hist EXCEPT !.open = open]
          /\ pc' = IF open THEN "raised" ELSE "remove_lv"
          /\ exc' = IF open THEN "RuntimeError" ELSE exc
    /\ log' = Append(log, <<"is_lv_open", Cur.ts>>)
    /\ UNCHANGED <<stack, world>>
    /\ UNCHANGED host

\* remove_lv(name): its failure leaves clean_snapshot
remove_lv ==
    /\ pc = "remove_lv"
    /\ \E ok \in HandlerOutcomes :
          /\ lvs' = IF ok THEN LvsWithout(VmSnapshot(Cur.ts)) ELSE lvs
          /\ cached' = IF ok THEN cached \ {VmSnapshot(Cur.ts)} ELSE cached
          /\ hist' = Noted(hist, ok, <<"remove_lv snapshot", Cur.ts>>)
          /\ pc' = IF ok THEN "remove_cache_volume" ELSE "raised"
          /\ exc' = IF ok THEN exc ELSE "CalledProcessError"
    /\ log' = Append(log, <<"remove_lv snapshot", Cur.ts>>)
    /\ UNCHANGED <<stack, args, records, iscsi, outdir, machines, snapfs>>
    /\ UNCHANGED host

\* if os.path.exists(cache_volume): remove_lv(cache_volume); then
\* clean_snapshot returns
remove_cache_volume ==
    /\ pc = "remove_cache_volume"
    /\ IF CacheLv(Cur.ts) \in lvs
       THEN \E ok \in HandlerOutcomes :
               /\ lvs' = IF ok THEN lvs \ {CacheLv(Cur.ts)} ELSE lvs
               /\ log' = Append(log, <<"remove_lv cache", Cur.ts>>)
               /\ IF ok
                  THEN /\ Returning(hist)
                       /\ UNCHANGED exc
                  ELSE /\ hist' = Noted(hist, ok, <<"remove_lv cache", Cur.ts>>)
                       /\ pc' = "raised"
                       /\ exc' = "CalledProcessError"
       ELSE /\ Returning(hist)
            /\ UNCHANGED <<lvs, exc, log>>
    /\ UNCHANGED <<stack, args, cached, records, iscsi, outdir, machines, snapfs>>
    /\ UNCHANGED host

NextClean ==
    \/ clean_snapshots
    \/ clean_snapshot
    \/ clean_ipxe_config
    \/ clean_artifacts
    \/ remove_iscsi_target
    \/ remove_iscsi_backstore
    \/ clean_save_iscsi_config
    \/ cleanup_kpartx
    \/ delete_cache_record
    \/ remove_snapshot_copy
    \/ is_lv_open
    \/ remove_lv
    \/ remove_cache_volume

SpecClean == InitClean /\ [][NextClean]_vars

(* ------------------------------------------------------------------ *)
(* Properties of clean                                                 *)
(* ------------------------------------------------------------------ *)

\* the reclamation steps of clean_snapshot in the order of the text
CleanOrder ==
    <<"os.remove ipxe_config", "rmtree artifacts", "remove_iscsi_target",
      "remove_iscsi_backstore", "save_iscsi_config", "cleanup_kpartx",
      "delete_cache_record", "remove_lv copy", "is_lv_open", "remove_lv snapshot",
      "remove_lv cache">>

Rank(step) == CHOOSE i \in 1..Len(CleanOrder) : CleanOrder[i] = step

\* the steps that were taken for a snapshot
StepsFor(ts) == {log[i][1] : i \in {j \in 1..Len(log) : log[j][2] = ts}}

\* clean_snapshot went through a snapshot to its end and no command failed
CleanedWell(ts) ==
    /\ ts \in hist.returned \ hist.skipped
    /\ \A f \in hist.failed : f[2] # ts

\* C11: the steps clean_snapshot takes for a snapshot it does not skip come
\* in the order ipxe file, artifacts directory, iSCSI target, backstore,
\* saveconfig, kpartx cleanup, cache record (with a cache config), -copy LV,
\* open check, snapshot LV, -cache LV; and once it has returned with every
\* command having exited zero, target, backstore, saveconfig, kpartx, the
\* open check and the removal of the snapshot LV were all invoked and none
\* of the snapshot's resources exists.
C11_CleanOrderAndResult ==
    /\ \A i, j \in 1..Len(log) :
          (i < j /\ log[i][2] = log[j][2]) => Rank(log[i][1]) < Rank(log[j][1])
    /\ \A ts \in {Timestamps[i] : i \in 1..Len(Timestamps)} :
          CleanedWell(ts) =>
             /\ {"remove_iscsi_target", "remove_iscsi_backstore", "save_iscsi_config",
                 "cleanup_kpartx", "is_lv_open", "remove_lv snapshot"} \subseteq StepsFor(ts)
             /\ "delete_cache_record" \in StepsFor(ts) <=> args.cache_config
             /\ IpxeConfig(ts) \notin ipxefiles
             /\ Artifacts(ts) \notin dirs
             /\ Target(ts) \notin targets \cup saved
             /\ Backstore(ts) \notin backstores \cup saved
             /\ VmSnapshot(ts) \notin mapped
             /\ args.cache_config => basename(VmSnapshot(ts)) \notin records
             /\ {SnapshotCopy(ts), VmSnapshot(ts), CacheLv(ts)} \cap lvs = {}

\* the latest snapshot, published, with a -copy LV, a record and a cache LV
\* that is not attached, was cleaned with --force-latest: every step ran
C11_Witness ==
    /\ pc = "returned"
    /\ CleanedWell(TS)
    /\ args.cache_config
    /\ StepsFor(TS) = {CleanOrder[i] : i \in 1..Len(CleanOrder)}

\* C12: no failure of iSCSI target removal, backstore removal, kpartx
\* cleanup, cache-record deletion or snapshot-copy removal ends the clean:
\* when clean has raised, the step that raised is none of these.
C12_BestEffortStepsNeverRaise ==
    pc = "raised" =>
        log[Len(log)][1] \notin {"remove_iscsi_target", "remove_iscsi_backstore",
                                 "cleanup_kpartx", "delete_cache_record", "remove_lv copy"}

\* what exists of a snapshot
ResourcesOf(ts) ==
    <<{VmSnapshot(ts), SnapshotCopy(ts), CacheLv(ts)} \cap lvs,
      {VmSnapshot(ts)} \cap cached,
      {basename(VmSnapshot(ts))} \cap records,
      {Target(ts)} \cap targets, {Target(ts)} \cap luns, {Target(ts)} \cap acls,
      {Backstore(ts)} \cap backstores,
      {Target(ts), Backstore(ts)} \cap saved,
      {IpxeConfig(ts)} \cap ipxefiles, {Artifacts(ts)} \cap dirs,
      {k \in kernels : k[1] = Artifacts(ts)},
      {VmSnapshot(ts)} \cap mapped>>

\* the elements of a sequence
Range(seq) == {seq[i] : i \in 1..Len(seq)}

\* C13: clean_snapshots cleans every enumerated snapshot but the greatest
\* with force = --force-old; without --force-latest nothing of the latest
\* snapshot is removed or changed; with --force-latest the latest is cleaned
\* with force=True after all the older ones; without snapshots nothing is
\* done.
C13_CleanSnapshotsSelection ==
    /\ [](pc \notin {"clean_snapshots", "returned", "raised"} =>
            LET snapshots == hist.snapshots
                latest    == snapshots[Len(snapshots)]
            IN  /\ Cur.ts \in Range(snapshots)
                /\ Cur.ts # latest => Cur.force = args.force_old
                /\ Cur.ts = latest =>
                      /\ args.force_latest
                      /\ Cur.force
                      /\ hist.returned = Range(snapshots) \ {latest})
    /\ [](pc = "returned" /\ hist.snapshots # <<>> =>
            LET snapshots == hist.snapshots
                latest    == snapshots[Len(snapshots)]
            IN  hist.returned = IF args.force_latest THEN Range(snapshots)
                                ELSE Range(snapshots) \ {latest})
    /\ [][/\ (get_snapshots # <<>> /\ ~args.force_latest) =>
                LET latest == get_snapshots[Len(get_snapshots)]
                IN  /\ ResourcesOf(latest)' = ResourcesOf(latest)
                    /\ links' = links
                    /\ \A i \in 1..Len(log') : log'[i][2] # latest
          /\ (pc = "clean_snapshots" /\ get_snapshots = <<>>) =>
                /\ pc' = "returned"
                /\ UNCHANGED <<world, log>>]_vars

\* three snapshots, all in use: with --force-old and --force-latest the
\* latest was cleaned last
C13_Witness ==
    /\ pc = "returned"
    /\ args.force_old /\ args.force_latest
    /\ hist.snapshots = Timestamps
    /\ hist.skipped = {}
    /\ log[Len(log)][2] = TS
    /\ log[1][2] = GoneTS

\* C27: lvremove of a snapshot LV is issued only right after is_lv_open of
\* that LV returned False.  When is_lv_open returns True, clean_snapshot
\* raises RuntimeError at once, with and without force, and no LV is
\* removed by that step or after it: the snapshot LV and its -cache LV
\* are where they were.
C27_OpenLvNeverRemoved ==
    /\ [](/\ pc = "remove_lv" => ~hist.open
          /\ (pc = "raised" /\ hist.open) =>
                /\ exc = "RuntimeError"
                /\ log[Len(log)] = <<"is_lv_open", Cur.ts>>
                /\ VmSnapshot(Cur.ts) \in lvs)
    /\ [][/\ (Len(log') > Len(log) /\ log'[Len(log')][1] = "remove_lv snapshot") =>
                /\ ~hist.open
                /\ log[Len(log)] = <<"is_lv_open", Cur.ts>>
                /\ log'[Len(log')] = <<"remove_lv snapshot", Cur.ts>>
          /\ (pc = "is_lv_open" /\ hist'.open) =>
                /\ pc' = "raised"
                /\ lvs' = lvs]_vars

\* a forced clean_snapshot found the LV open: RuntimeError, the snapshot LV
\* and its cache LV still exist
C27_Witness ==
    /\ pc = "raised"
    /\ hist.open
    /\ Cur.force
    /\ VmSnapshot(Cur.ts) \in lvs
    /\ CacheLv(Cur.ts) \in lvs

\* C32, for clean: a snapshot that clean_snapshot has removed has no cache
\* LV any more when clean_snapshot has returned, and no cache record when
\* clean was given the cache configuration.
C32_CleanRemovesCache ==
    \A i \in 1..Len(hist.snapshots) :
        LET ts == hist.snapshots[i]
        IN  VmSnapshot(ts) \notin lvs =>
               /\ args.cache_config => basename(VmSnapshot(ts)) \notin records
               /\ ts \in hist.returned => CacheLv(ts) \notin lvs

\* clean removed a snapshot that had a cache record and a cache LV
C32_Cleaned ==
    /\ pc = "returned"
    /\ args.cache_config
    /\ \E i \in 1..Len(hist.snapshots) :
          /\ VmSnapshot(hist.snapshots[i]) \notin lvs
          /\ basename(VmSnapshot(hist.snapshots[i])) \notin records
          /\ <<"delete_cache_record", hist.snapshots[i]>> \in {log[j] : j \in 1..Len(log)}
          /\ <<"remove_lv cache", hist.snapshots[i]>> \in {log[j] : j \in 1..Len(log)}
          /\ CacheLv(hist.snapshots[i]) \notin lvs

\* C10: clean_snapshot with force=False on a snapshot whose target lists a
\* dynamic session changes nothing (LVs, target, backstore, ipxe file,
\* artifacts directory, cache record all stay), issues no mutating command
\* and returns normally.
C10_SkipChangesNothing ==
    [][(/\ pc = "clean_snapshot"
        /\ ~Cur.force
        /\ Target(Cur.ts) \in targets
        /\ Target(Cur.ts) \in DOMAIN sessions
        /\ \E i \in 1..Len(sessions[Target(Cur.ts)]) :
              sessions[Target(Cur.ts)][i] \notin {"", " ", "\n"})
       => /\ UNCHANGED <<world, log, exc>>
          /\ exc = NoExc
          /\ pc' \in {"clean_snapshot", "returned"}
          /\ hist'.returned = hist.returned \cup {Cur.ts}]_vars

\* clean has returned after skipping a snapshot that is in use, which is
\* still there in full
C10_Witness ==
    /\ pc = "returned"
    /\ PrevTS \in hist.skipped
    /\ ~args.force_old
    /\ {VmSnapshot(PrevTS), SnapshotCopy(PrevTS), CacheLv(PrevTS)} \subseteq lvs
    /\ Target(PrevTS) \in targets
    /\ Backstore(PrevTS) \in backstores
    /\ IpxeConfig(PrevTS) \in ipxefiles
    /\ Artifacts(PrevTS) \in dirs
    /\ basename(VmSnapshot(PrevTS)) \in records

(* ------------------------------------------------------------------ *)
(* enable-cache and disable-cache                                      *)
(* ------------------------------------------------------------------ *)

\* the volumes that may have a cache
CacheVols == {VmSnapshot(PrevTS), VmSnapshot(TS)}

lv_path(vg, lv) == join(vg, lv)

\* the cache LV create_cache_volume makes for a volume
CacheVolumeOf(volume) == join(dirname(volume), cache_lv_name(basename(volume)))

\* os.listdir(cached_volumes_path): the records in some order
list_cache_records ==
    {order \in [1..Cardinality(records) -> records] :
        \A i, j \in 1..Cardinality(records) : i # j => order[i] # order[j]}

\* what the cache subcommands read and change
CacheState == [lvs |-> lvs, cached |-> cached, records |-> records, pv |-> pv]

\* Exit codes of a command: LVM refuses one that does not apply to the
\* state it finds; one that applies may still fail.
CommandOutcomes(h, applicable) ==
    IF ~applicable THEN {FALSE}
    ELSE IF h.hfails < MaxHandlerFailures THEN BOOLEAN ELSE {TRUE}

\* a command that applied and failed is remembered
Attempted(h, applicable, ok, what) == IF applicable THEN Noted(h, ok, what) ELSE h

\* the subcommand ends, by return or by what it raises
Ended(h, after, raised) ==
    [h EXCEPT !.runs[Len(h.runs)] =
                  [@ EXCEPT !.after = after, !.ended = TRUE, !.raised = raised,
                            !.failures = h.hfails]]

\* try/except Exception around a command whose failure is not logged but raised
BestEffort_Raising(ok) == IF ok THEN NoExc ELSE "CalledProcessError"

\* try: log_and_call(...) except Exception: logging.exception(...)
BestEffort(ok) == NoExc

InitCache ==
    /\ pc = "main"
    /\ stack = <<>>
    /\ exc = NoExc
    /\ args = [func |-> "", cleanup |-> FALSE]
    \* a volume is cached only with a record, and only on a cache PV that is
    \* or was in the group
    /\ \E recorded \in SUBSET CacheVols, attached \in SUBSET CacheVols,
          p \in {"absent", "pv", "in-vg", "missing", "missing-pv"} :
          /\ attached \subseteq recorded
          /\ attached # {} => p \in {"in-vg", "missing"}
          /\ lvs = {RefLv} \cup CacheVols \cup {CacheVolumeOf(v) : v \in attached}
          /\ cached = attached
          /\ records = {basename(v) : v \in recorded}
          /\ pv = p
    /\ backstores = {}
    /\ targets = {}
    /\ luns = {}
    /\ acls = {}
    /\ saved = {}
    /\ ipxefiles = {}
    /\ dirs = {}
    /\ kernels = {}
    /\ links = [p \in LinkPaths \cup {CopyTo, NewPath(CopyTo)} |-> Nil]
    /\ refvm = "running"
    /\ testhost = "up-old"
    /\ resets = 0
    /\ sessions = <<>>
    /\ mapped = {}
    /\ mounts = {}
    /\ tmpdir = FALSE
    /\ stamps = {}
    /\ lock = 0
    /\ log = <<>>
    /\ hist = [runs |-> <<>>, todo |-> <<>>, hfails |-> 0, failed |-> {}]

\* main: args.func(args) for enable-cache [--cleanup] or disable-cache;
\* cleanup_cache and disable_cache begin with the loop over the records
main ==
    /\ pc = "main"
    /\ Len(hist.runs) < MaxRuns
    /\ \E func \in {"enable_cache", "disable_cache"}, cleanup \in BOOLEAN,
          todo \in list_cache_records :
          /\ func = "disable_cache" => ~cleanup
          /\ args' = [func |-> func, cleanup |-> cleanup]
          /\ hist' = [hist EXCEPT
                        !.runs = Append(@, [func |-> func, cleanup |-> cleanup,
                                            before |-> CacheState, after |-> CacheState,
                                            ended |-> FALSE, raised |-> FALSE,
                                            failures |-> 0]),
                        !.todo = todo, !.hfails = 0, !.failed = {}]
          /\ pc' = IF func = "enable_cache" /\ ~cleanup THEN "enable_cache"
                   ELSE IF todo # <<>> THEN "disable_cache_on"
                   ELSE IF func = "disable_cache" THEN "disable_cache"
                   ELSE "cleanup_cache"
    /\ exc' = NoExc
    /\ log' = <<>>
    /\ UNCHANGED <<stack, lvm, iscsi, outdir, machines, snapfs, host>>

\* disable_cache_on(lv_path(vg, record)): lvconvert --uncache detaches the
\* cache and removes the cache LV; a failure is logged
disable_cache_on ==
    /\ pc = "disable_cache_on"
    /\ LET volume     == lv_path(VgDir, Head(hist.todo))
           applicable == volume \in cached
       IN  \E ok \in CommandOutcomes(hist, applicable) :
              LET h == [Attempted(hist, applicable, ok,
                                  <<"lvconvert --uncache", TimestampOf(volume)>>)
                           EXCEPT !.todo = Tail(@)]
              IN  /\ cached' = IF ok THEN cached \ {volume} ELSE cached
                  /\ lvs' = IF ok THEN lvs \ {CacheVolumeOf(volume)} ELSE lvs
                  /\ exc' = BestEffort(ok)
                  /\ IF exc' # NoExc
                     THEN /\ pc' = "main"
                          /\ hist' = Ended(h, [CacheState EXCEPT !.lvs = lvs', !.cached = cached'],
                                           TRUE)
                     ELSE /\ pc' = IF h.todo # <<>> THEN pc
                                   ELSE IF args.func = "disable_cache" THEN "disable_cache"
                                   ELSE "cleanup_cache"
                          /\ hist' = h
                  /\ log' = Append(log, <<"lvconvert --uncache", TimestampOf(volume)>>)
    /\ UNCHANGED <<stack, args, records, iscsi, outdir, machines, snapfs, host>>

\* disable_cache after the loop: vgreduce <vg> <cache_pv>, which LVM refuses
\* while cache LVs are allocated on the PV, then pvremove -f <cache_pv>,
\* which it refuses for a PV in a group; both failures are logged
disable_cache ==
    /\ pc = "disable_cache"
    /\ LET reducible == pv = "in-vg" /\ \A v \in CacheVols : CacheVolumeOf(v) \notin lvs
       IN  \E reduced \in CommandOutcomes(hist, reducible) :
              LET pv1       == IF reduced THEN "pv" ELSE pv
                  h1        == Attempted(hist, reducible, reduced, <<"vgreduce", "">>)
                  removable == pv1 \in {"pv", "missing-pv"}
              IN  \E removed \in CommandOutcomes(h1, removable) :
                     /\ pv' = IF ~removed THEN pv1
                              ELSE IF pv1 = "pv" THEN "absent" ELSE "missing"
                     /\ exc' = BestEffort(reduced /\ removed)
                     /\ hist' = Ended(Attempted(h1, removable, removed, <<"pvremove -f", "">>),
                                      [CacheState EXCEPT !.pv = pv'], exc' # NoExc)
    /\ log' = log \o <<<<"vgreduce", "">>, <<"pvremove -f", "">>>>
    /\ pc' = "main"
    /\ UNCHANGED <<stack, args, lvm, iscsi, outdir, machines, snapfs, lock>>

\* cleanup_cache after the loop: vgreduce --removemissing <vg>, which LVM
\* refuses while LVs are allocated on the lost PV, then vgchange -ay <vg>;
\* a failure of either is raised
cleanup_cache ==
    /\ pc = "cleanup_cache"
    /\ LET applicable == \/ pv \notin {"missing", "missing-pv"}
                         \/ \A v \in CacheVols : CacheVolumeOf(v) \notin lvs
       IN  \E reduced \in CommandOutcomes(hist, applicable) :
              IF reduced
              THEN \E activated \in CommandOutcomes(hist, TRUE) :
                      /\ pv' = CASE pv = "missing" -> "absent"
                                 [] pv = "missing-pv" -> "pv"
                                 [] OTHER -> pv
                      /\ log' = log \o <<<<"vgreduce --removemissing", "">>,
                                         <<"vgchange -ay", "">>>>
                      /\ IF activated
                         THEN /\ pc' = "enable_cache"
                              /\ UNCHANGED <<exc, hist>>
                         ELSE /\ pc' = "main"
                              /\ exc' = "CalledProcessError"
                              /\ hist' = Ended(Noted(hist, FALSE, <<"vgchange -ay", "">>),
                                               [CacheState EXCEPT !.pv = pv'], TRUE)
              ELSE /\ pc' = "main"
                   /\ exc' = "CalledProcessError"
                   /\ hist' = Ended(Attempted(hist, applicable, FALSE,
                                              <<"vgreduce --removemissing", "">>),
                                    CacheState, TRUE)
                   /\ log' = Append(log, <<"vgreduce --removemissing", "">>)
                   /\ UNCHANGED pv
    /\ UNCHANGED <<stack, args, lvm, iscsi, outdir, machines, snapfs, lock>>

\* enable_cache: pvcreate -y <cache_pv>, which LVM refuses for a PV that
\* belongs to a group, then vgextend <vg> <cache_pv>, which it refuses while
\* the group misses a PV; a failure of either is raised.  Then the records
\* are listed for the loop over configure_caching.
enable_cache ==
    /\ pc = "enable_cache"
    /\ LET creatable == pv # "in-vg"
       IN  \E created \in CommandOutcomes(hist, creatable) :
              IF created
              THEN LET pv1        == CASE pv = "absent" -> "pv"
                                       [] pv = "missing" -> "missing-pv"
                                       [] OTHER -> pv
                       extendable == pv1 = "pv"
                   IN  \E extended \in CommandOutcomes(hist, extendable),
                          todo \in list_cache_records :
                          /\ log' = log \o <<<<"pvcreate", "">>, <<"vgextend", "">>>>
                          /\ IF extended
                             THEN /\ pv' = "in-vg"
                                  /\ pc' = IF todo = <<>> THEN "main" ELSE "configure_caching_record"
                                  /\ hist' = IF todo = <<>>
                                             THEN Ended(hist, [CacheState EXCEPT !.pv = pv'], FALSE)
                                             ELSE [hist EXCEPT !.todo = todo]
                                  /\ UNCHANGED exc
                             ELSE /\ pv' = pv1
                                  /\ pc' = "main"
                                  /\ exc' = "CalledProcessError"
                                  /\ hist' = Ended(Attempted(hist, extendable, FALSE,
                                                             <<"vgextend", "">>),
                                                   [CacheState EXCEPT !.pv = pv'], TRUE)
              ELSE /\ pc' = "main"
                   /\ exc' = "CalledProcessError"
                   /\ hist' = Ended(Attempted(hist, creatable, FALSE, <<"pvcreate", "">>),
                                    CacheState, TRUE)
                   /\ log' = Append(log, <<"pvcreate", "">>)
                   /\ UNCHANGED pv
    /\ UNCHANGED <<stack, args, lvm, iscsi, outdir, machines, snapfs, lock>>

\* enable_cache: configure_caching(lv_path(vg, record), cache_config) for
\* the next record.  `step` is the step that failed ("cached": none):
\* lvcreate of the cache LV on the cache PV, the write of the record, or
\* lvconvert --type cache; `undone` is the exit code of the lvremove that
\* rolls the cache LV back.  After a failed lvconvert the record is deleted,
\* then the cache LV removed; after a failed record write only the cache LV
\* is removed.  Nothing is raised.
configure_caching_record ==
    /\ pc = "configure_caching_record"
    /\ LET record      == Head(hist.todo)
           volume      == lv_path(VgDir, record)
           ts          == TimestampOf(volume)
           creatable   == pv = "in-vg" /\ CacheVolumeOf(volume) \notin lvs
           convertible == volume \in lvs /\ volume \notin cached
       IN  \E step \in {"cached", "lvcreate", "create_cache_record", "lvconvert"},
              undone \in BOOLEAN :
              LET unforced == (IF step = "lvcreate" /\ creatable THEN 1 ELSE 0)
                              + (IF step = "create_cache_record" THEN 1 ELSE 0)
                              + (IF step = "lvconvert" /\ convertible THEN 1 ELSE 0)
                              + (IF undone THEN 0 ELSE 1)
                  h        == [hist EXCEPT
                                 !.todo = Tail(@),
                                 !.hfails = @ + unforced,
                                 !.failed = IF unforced = 0 THEN @ ELSE @ \cup {<<step, ts>>}]
                  kept     == IF undone THEN lvs ELSE lvs \cup {CacheVolumeOf(volume)}
              IN  /\ ~creatable => step = "lvcreate"
                  /\ step = "cached" => convertible
                  /\ step \in {"cached", "lvcreate"} => undone
                  /\ hist.hfails + unforced <= MaxHandlerFailures
                  /\ lvs' = CASE step = "cached" -> lvs \cup {CacheVolumeOf(volume)}
                              [] step = "lvcreate" -> lvs
                              [] OTHER -> kept
                  /\ cached' = IF step = "cached" THEN cached \cup {volume} ELSE cached
                  /\ records' = CASE step = "lvconvert" -> records \ {record}
                                  [] step \in {"cached"} -> records \cup {record}
                                  [] OTHER -> records
                  /\ log' = log \o
                            CASE step = "lvcreate" -> <<<<"lvcreate", ts>>>>
                              [] step = "create_cache_record" ->
                                    <<<<"lvcreate", ts>>, <<"create_cache_record", ts>>,
                                      <<"remove_lv cache", ts>>>>
                              [] step = "lvconvert" ->
                                    <<<<"lvcreate", ts>>, <<"create_cache_record", ts>>,
                                      <<"lvconvert --type cache", ts>>,
                                      <<"delete_cache_record", ts>>, <<"remove_lv cache", ts>>>>
                              [] OTHER ->
                                    <<<<"lvcreate", ts>>, <<"create_cache_record", ts>>,
                                      <<"lvconvert --type cache", ts>>>>
                  /\ pc' = IF h.todo = <<>> THEN "main" ELSE pc
                  /\ hist' = IF h.todo = <<>>
                             THEN Ended(h, [lvs |-> lvs', cached |-> cached',
                                            records |-> records', pv |-> pv], FALSE)
                             ELSE h
    /\ UNCHANGED <<stack, exc, args, iscsi, outdir, machines, snapfs, host>>

NextCache ==
    \/ main
    \/ disable_cache_on
    \/ disable_cache
    \/ cleanup_cache
    \/ enable_cache
    \/ configure_caching_record

SpecCache == InitCache /\ [][NextCache]_vars

(* ------------------------------------------------------------------ *)
(* Properties of enable-cache and disable-cache                        *)
(* ------------------------------------------------------------------ *)

\* the k-th subcommand has run to its end and was `func`
Ran(k, func, cleanup) ==
    /\ k <= Len(hist.runs)
    /\ hist.runs[k].ended
    /\ hist.runs[k].func = func
    /\ hist.runs[k].cleanup = cleanup

\* C16 (as the specification states it): after disable_cache and then
\* enable_cache, the cache records are the ones there were before
\* disable_cache, whatever lvconvert calls failed.
C16_RecordsRoundTrip ==
    (Ran(1, "disable_cache", FALSE) /\ Ran(2, "enable_cache", FALSE)) =>
        hist.runs[2].after.records = hist.runs[1].before.records

C18_CleanupAlwaysEnables ==
    \A k \in 1..Len(hist.runs) :
       (Ran(k, "enable_cache", TRUE) /\ hist.runs[k].failures = 0) =>
          /\ ~hist.runs[k].raised
          /\ hist.runs[k].after.pv = "in-vg"
          /\ \A record \in hist.runs[k].before.records :
                lv_path(VgDir, record) \in hist.runs[k].after.cached

(* ------------------------------------------------------------------ *)
(* main under --lock: several instances of the program                 *)
(* ------------------------------------------------------------------ *)

InitLock ==
    /\ pc = [i \in 1..MaxInstances |-> "main"]
    /\ stack = <<>>
    /\ exc = NoExc
    /\ args \in [lock : BOOLEAN]
    /\ lvs = {RefLv}
    /\ cached = {}
    /\ records = {}
    /\ backstores = {}
    /\ targets = {}
    /\ luns = {}
    /\ acls = {}
    /\ saved = {}
    /\ ipxefiles = {}
    /\ dirs = {}
    /\ kernels = {}
    /\ links = [p \in LinkPaths \cup {CopyTo, NewPath(CopyTo)} |-> Nil]
    /\ refvm = "running"
    /\ testhost = "up-old"
    /\ resets = 0
    /\ sessions = <<>>
    /\ mapped = {}
    /\ mounts = {}
    /\ tmpdir = FALSE
    /\ stamps = {}
    /\ pv = "absent"
    /\ lock = 0
    /\ log = <<>>
    /\ hist = [issued   |-> [i \in 1..MaxInstances |-> 0],
               acquired |-> [i \in 1..MaxInstances |-> FALSE],
               raised   |-> [i \in 1..MaxInstances |-> NoExc],
               code     |-> [i \in 1..MaxInstances |-> ""]]

\* a lockf that grants the lock although another instance holds it
locked_Shared ==
    /\ \E i \in 1..MaxInstances :
          /\ pc[i] = "main"
          /\ pc' = [pc EXCEPT ![i] = "func"]
          /\ lock' = IF args.lock THEN i ELSE lock
          /\ hist' = [hist EXCEPT !.acquired[i] = args.lock]
    /\ UNCHANGED <<stack, exc, args, lvm, iscsi, outdir, machines, snapfs, pv, log>>

\* locked(args) up to its yield.  With --lock: open(args.lock, 'w'), then
\* lockf(LOCK_EX | LOCK_NB): granted when no other process holds the lock;
\* else OSError(EAGAIN), for which the instance exits with code 2; any
\* other OSError is raised.  Without --lock the body runs at once.
locked ==
    /\ \E i \in 1..MaxInstances :
          /\ pc[i] = "main"
          /\ IF ~args.lock
             THEN /\ pc' = [pc EXCEPT ![i] = "func"]
                  /\ UNCHANGED <<lock, hist>>
             ELSE IF lock # 0
             THEN /\ pc' = [pc EXCEPT ![i] = "exited"]
                  /\ hist' = [hist EXCEPT !.raised[i] = "EAGAIN", !.code[i] = "2"]
                  /\ UNCHANGED lock
             ELSE \/ /\ pc' = [pc EXCEPT ![i] = "func"]
                     /\ lock' = i
                     /\ hist' = [hist EXCEPT !.acquired[i] = TRUE]
                  \/ /\ pc' = [pc EXCEPT ![i] = "exited"]
                     /\ hist' = [hist EXCEPT !.raised[i] = "OSError", !.code[i] = "1"]
                     /\ UNCHANGED lock
    /\ UNCHANGED <<stack, exc, args, lvm, iscsi, outdir, machines, snapfs, pv, log>>

\* args.func(args) issues its next command
func ==
    /\ \E i \in 1..MaxInstances :
          /\ pc[i] = "func"
          /\ hist.issued[i] < MaxCommands
          /\ hist' = [hist EXCEPT !.issued[i] = @ + 1]
    /\ UNCHANGED <<pc, stack, exc, args, lvm, iscsi, outdir, machines, snapfs, host, log>>

\* args.func(args) returns or raises and locked(args) is left.  On return
\* lockf(LOCK_UN); in every case the lock file is closed, which drops the
\* lock of this process.  An OSError(EAGAIN) of the subcommand is taken by
\* the `except OSError` of locked for a lock that is held: exit code 2.
locked_exit ==
    /\ \E i \in 1..MaxInstances, e \in {NoExc, "CalledProcessError", "EAGAIN"} :
          /\ pc[i] = "func"
          /\ pc' = [pc EXCEPT ![i] = "exited"]
          /\ lock' = IF lock = i THEN 0 ELSE lock
          /\ hist' = [hist EXCEPT
                        !.raised[i] = e,
                        !.code[i] = CASE e = NoExc -> "0"
                                      [] e = "EAGAIN" /\ args.lock -> "2"
                                      [] OTHER -> "1"]
    /\ UNCHANGED <<stack, exc, args, lvm, iscsi, outdir, machines, snapfs, pv, log>>

NextLock ==
    \/ locked
    \/ func
    \/ locked_exit

SpecLock == InitLock /\ [][NextLock]_vars

\* C19: with --lock, at most one instance is inside its subcommand at any
\* time, and it is the one holding the lock; an instance that was refused
\* the lock has exit code 2 and has issued no command; an instance that has
\* ended, by return or by failure, holds no lock, so the lock is free
\* whenever no instance is inside its subcommand.
C19_LockExcludes ==
    args.lock =>
        /\ \A i, j \in 1..MaxInstances : (pc[i] = "func" /\ pc[j] = "func") => i = j
        /\ \A i \in 1..MaxInstances :
              /\ pc[i] = "func" <=> lock = i
              /\ (pc[i] = "exited" /\ ~hist.acquired[i] /\ hist.raised[i] = "EAGAIN") =>
                    hist.code[i] = "2" /\ hist.issued[i] = 0
              /\ ~hist.acquired[i] => hist.issued[i] = 0

\* the first instance failed inside its subcommand; a later one got the
\* lock and is running; a third one was refused meanwhile
C19_Witness ==
    /\ args.lock
    /\ pc[1] = "exited" /\ hist.acquired[1] /\ hist.code[1] = "1" /\ hist.issued[1] > 0
    /\ pc[2] = "func" /\ lock = 2 /\ hist.issued[2] > 0
    /\ pc[3] = "exited" /\ ~hist.acquired[3] /\ hist.code[3] = "2"

(* ------------------------------------------------------------------ *)
(* cleanup_kpartx: the retries of kpartx -d                            *)
(* ------------------------------------------------------------------ *)

\* a cleanup_kpartx that sleeps after its last attempt as well
Delays_SleepAfterLast == <<"0.1", "0.3", "0.5", "1", "2", "3", "3">>

\* for delay in (0.1, 0.3, 0.5, 1, 2, 3, None)
Delays == <<"0.1", "0.3", "0.5", "1", "2", "3", "None">>

\* hist.results: what the successive invocations of kpartx -d -v would
\* end with: exit code zero, or non-zero with or without "is in use" in
\* the output
InitKpartx ==
    /\ pc = "kpartx -d"
    /\ stack = <<>>
    /\ exc = NoExc
    /\ args = [device |-> VmSnapshot(TS)]
    /\ lvs = {RefLv, VmSnapshot(TS)}
    /\ cached = {}
    /\ records = {}
    /\ backstores = {}
    /\ targets = {}
    /\ luns = {}
    /\ acls = {}
    /\ saved = {}
    /\ ipxefiles = {}
    /\ dirs = {}
    /\ kernels = {}
    /\ links = [p \in LinkPaths \cup {CopyTo, NewPath(CopyTo)} |-> Nil]
    /\ refvm = "running"
    /\ testhost = "up-old"
    /\ resets = 0
    /\ sessions = <<>>
    /\ mapped = {VmSnapshot(TS)}
    /\ mounts = {}
    /\ tmpdir = FALSE
    /\ stamps = {}
    /\ pv = "absent"
    /\ lock = 0
    /\ log = <<>>
    /\ \E results \in [1..Len(Delays) -> {"0", "is in use", "other"}] :
          hist = [results |-> results, slept |-> <<>>]

\* one pass of the loop of cleanup_kpartx: run kpartx -d -v; return on exit
\* code zero; on "is in use" sleep if there is a delay and go on, to the
\* RuntimeError after the loop when this was the last pass; else RuntimeError
kpartx_d ==
    /\ pc = "kpartx -d"
    /\ LET pass   == Len(log) + 1
           result == hist.results[pass]
       IN  /\ log' = Append(log, <<"kpartx -d -v", TimestampOf(args.device)>>)
           /\ mapped' = IF result = "0" THEN mapped \ {args.device} ELSE mapped
           /\ hist' = IF result = "is in use" /\ Delays[pass] # "None"
                      THEN [hist EXCEPT !.slept = Append(@, Delays[pass])]
                      ELSE hist
           /\ pc' = CASE result = "0" -> "returned"
                      [] result = "is in use" /\ pass < Len(Delays) -> pc
                      [] OTHER -> "raised"
           /\ exc' = IF pc' = "raised" THEN "RuntimeError" ELSE exc
    /\ UNCHANGED <<stack, args, lvm, iscsi, outdir, machines, mounts, tmpdir, stamps, host>>

NextKpartx == kpartx_d

SpecKpartx == InitKpartx /\ [][NextKpartx]_vars

\* the first invocation that does not end with "is in use", 8 when all 7 do
FirstFinal ==
    IF \A i \in 1..7 : hist.results[i] = "is in use" THEN 8
    ELSE CHOOSE i \in 1..7 :
            /\ hist.results[i] # "is in use"
            /\ \A j \in 1..(i - 1) : hist.results[j] = "is in use"

\* C20: cleanup_kpartx invokes kpartx -d -v at most 7 times.  It returns
\* right after the first invocation that exits zero; it raises RuntimeError
\* right after the first non-zero exit without "is in use", and after the
\* 7th "is in use"; it has slept 0.1, 0.3, 0.5, 1, 2, 3 after the "is in
\* use" failures before, one delay each, and never after the 7th.
C20_KpartxRetries ==
    /\ Len(log) <= 7
    /\ Len(log) <= FirstFinal
    /\ hist.slept = SubSeq(<<"0.1", "0.3", "0.5", "1", "2", "3">>, 1,
                           IF pc = "kpartx -d" THEN Len(log)
                           ELSE IF FirstFinal = 8 THEN 6 ELSE Len(log) - 1)
    /\ pc = "kpartx -d" => Len(log) < FirstFinal /\ Len(log) < 7
    /\ pc = "returned" =>
          /\ Len(log) = FirstFinal
          /\ hist.results[FirstFinal] = "0"
          /\ exc = NoExc
    /\ pc = "raised" =>
          /\ exc = "RuntimeError"
          /\ \/ FirstFinal = 8 /\ Len(log) = 7
             \/ FirstFinal <= 7 /\ Len(log) = FirstFinal /\ hist.results[FirstFinal] = "other"

\* seven times "is in use": RuntimeError after the 7th invocation and six
\* sleeps
C20_Witness ==
    /\ pc = "raised"
    /\ Len(log) = 7
    /\ hist.slept = <<"0.1", "0.3", "0.5", "1", "2", "3">>

(* ------------------------------------------------------------------ *)
(* wait_for (update.py:49-56), by itself.  Time is counted in whole    *)
(* seconds; hist.now is what time.time() returns.                      *)
(* ------------------------------------------------------------------ *)

\* the variables the small machines below do not use
Idle ==
    /\ stack = <<>>
    /\ lvs = {RefLv}
    /\ cached = {}
    /\ records = {}
    /\ backstores = {}
    /\ targets = {}
    /\ luns = {}
    /\ acls = {}
    /\ saved = {}
    /\ ipxefiles = {}
    /\ dirs = {}
    /\ kernels = {}
    /\ links = [p \in LinkPaths \cup {CopyTo, NewPath(CopyTo)} |-> Nil]
    /\ refvm = "running"
    /\ resets = 0
    /\ sessions = <<>>
    /\ mapped = {}
    /\ mounts = {}
    /\ tmpdir = FALSE
    /\ stamps = {}
    /\ pv = "absent"
    /\ lock = 0

\* what the predicates handed to wait_for return: no_dpkg_locks,
\* is_accessible, not is_vm_running, not is_lv_open return a bool,
\* booted_properly returns True, False or (after a failed cat) None; a
\* predicate may also raise (is_lv_open, a failing virsh list)
PredicateValues == {"True", "False", "None", "raise"}

\* bool(value)
Truthy(value) == value = "True"

\* a loop that still polls when the elapsed time equals the timeout
InTime_Inclusive(now, start, timeout) == now - start <= timeout

\* while time.time() - start_time < timeout
InTime(now, start, timeout) == now - start < timeout

\* hist.polls: when each call of condition() began and what it returned;
\* hist.sleeps: when each time.sleep began and for how long
InitWait ==
    /\ Idle
    /\ pc = "while"
    /\ exc = NoExc
    /\ testhost = "down"
    /\ log = <<>>
    /\ args \in [timeout : 1..MaxTimeout, step : 1..MaxStep]
    /\ \E start \in 0..1 :
          hist = [start |-> start, now |-> start, polls |-> <<>>, sleeps |-> <<>>,
                  result |-> "nothing"]

\* the loop test; after the loop raise Timeout
wait_for ==
    /\ pc = "while"
    /\ IF InTime(hist.now, hist.start, args.timeout)
       THEN /\ pc' = "condition"
            /\ UNCHANGED exc
       ELSE /\ pc' = "raised"
            /\ exc' = "Timeout"
    /\ UNCHANGED <<stack, args, lvm, iscsi, outdir, machines, snapfs, host, log, hist>>

\* if condition(): return True.  The call takes `took` seconds (ssh with
\* ConnectTimeout=1); what it raises leaves wait_for
condition ==
    /\ pc = "condition"
    /\ \E value \in PredicateValues, took \in 0..1 :
          /\ hist' = [hist EXCEPT !.now = @ + took,
                                  !.polls = Append(@, [at |-> hist.now, value |-> value]),
                                  !.result = IF value # "raise" /\ Truthy(value)
                                             THEN "True" ELSE @]
          /\ pc' = CASE value = "raise" -> "raised"
                     [] Truthy(value) -> "returned"
                     [] OTHER -> "sleep"
          /\ exc' = IF value = "raise" THEN "RuntimeError" ELSE exc
    /\ UNCHANGED <<stack, args, lvm, iscsi, outdir, machines, snapfs, host, log>>

\* time.sleep(step)
sleep ==
    /\ pc = "sleep"
    /\ hist' = [hist EXCEPT !.now = @ + args.step,
                            !.sleeps = Append(@, [at |-> hist.now, for |-> args.step])]
    /\ pc' = "while"
    /\ UNCHANGED <<stack, exc, args, lvm, iscsi, outdir, machines, snapfs, host, log>>

NextWait ==
    \/ wait_for
    \/ condition
    \/ sleep

SpecWait == InitWait /\ [][NextWait]_vars

\* the poll returned a falsy value
Falsy(poll) == poll.value # "raise" /\ ~Truthy(poll.value)

\* C21: the first poll is made at once; every later poll begins when the
\* sleep of `step` seconds that followed the poll before it ends, and a
\* sleep follows a falsy poll only; every poll begins before the elapsed
\* time has reached the timeout.  wait_for returns exactly when a poll was
\* truthy, that poll is the last one, and what is returned is True.  It
\* raises Timeout exactly when it has ended with every poll made falsy,
\* and then the elapsed time has reached the timeout.
C21_WaitForPolls ==
    LET P == hist.polls
        S == hist.sleeps
    IN  /\ Len(S) <= Len(P) /\ Len(P) <= Len(S) + 1
        /\ Len(P) > 0 => P[1].at = hist.start
        /\ \A i \in 1..Len(S) : Falsy(P[i]) /\ S[i].for = args.step /\ S[i].at >= P[i].at
        /\ \A i \in 2..Len(P) : P[i].at = S[i - 1].at + args.step
        /\ \A i \in 1..Len(P) : P[i].at - hist.start < args.timeout
        /\ \A i \in 1..(Len(P) - 1) : Falsy(P[i])
        /\ pc = "returned" <=> (Len(P) > 0 /\ P[Len(P)].value # "raise"
                                           /\ Truthy(P[Len(P)].value))
        /\ pc = "returned" => hist.result = "True" /\ exc = NoExc
        /\ pc # "returned" => hist.result = "nothing"
        /\ (pc = "raised" /\ exc = "Timeout") <=>
              (pc \in {"returned", "raised"} /\ \A i \in 1..Len(P) : Falsy(P[i]))
        /\ (pc = "raised" /\ exc = "Timeout") => hist.now - hist.start >= args.timeout

\* Timeout after two falsy polls and two sleeps
C21_Witness ==
    /\ pc = "raised"
    /\ exc = "Timeout"
    /\ Len(hist.polls) = 2
    /\ Len(hist.sleeps) = 2

(* ------------------------------------------------------------------ *)
(* add --push: reboot_inactive_clients (update.py:934-950) after       *)
(* snapshot_stack is closed (update.py:1012-1014)                      *)
(* ------------------------------------------------------------------ *)

\* args.test_host
TestHost == "testhost"

\* the initiator names seen in a dynamic_sessions file: a client and the
\* test host booted over iPXE, and an initiator that is no netbooted host
SessionNames ==
    {ClientSession[1],
     "iqn.2010-04.org.ipxe:testhost_2024-05-01_10-10-00",
     "iqn.1993-08.org.debian:01:0123456789ab"}

\* get_hostname: the match of ^.+\:(?P<hostname>.+)_....-..-.._..-..-..$,
\* ValueError when the name does not end in _ and 19 more characters
get_hostname(session) ==
    CASE session = ClientSession[1] -> "host1"
      [] session = "iqn.2010-04.org.ipxe:testhost_2024-05-01_10-10-00" -> "testhost"
      [] OTHER -> "ValueError"

\* the sequences of at most n different elements of S
Listings(S, n) ==
    {q \in UNION {[1..k -> S] : k \in 0..n} : \A i, j \in DOMAIN q : i # j => q[i] # q[j]}

\* snapshot_stack has just been closed, with or without an exception in
\* flight; a run that failed has removed what it published.  hist.status:
\* whether somebody is logged in on the client ("busy"), nobody ("idle"), or
\* ssh cannot reach it ("down")
InitPush ==
    /\ pc = "unwind"
    /\ stack = <<>>
    /\ exc \in {NoExc, "Timeout"}
    /\ args \in [push : BOOLEAN, test_host : {TestHost}]
    /\ lvs = {RefLv, VmSnapshot(PrevTS)} \cup (IF exc = NoExc THEN {VmSnapshot(TS)} ELSE {})
    /\ cached = {}
    /\ records = {}
    /\ targets = {Target(PrevTS)} \cup (IF exc = NoExc THEN {Target(TS)} ELSE {})
    /\ backstores = {Backstore(PrevTS)} \cup (IF exc = NoExc THEN {Backstore(TS)} ELSE {})
    /\ luns = targets
    /\ acls = targets
    /\ saved = backstores \cup targets
    /\ ipxefiles = {IpxeConfig(PrevTS)} \cup (IF exc = NoExc THEN {IpxeConfig(TS)} ELSE {})
    /\ dirs = {Artifacts(PrevTS)} \cup (IF exc = NoExc THEN {Artifacts(TS)} ELSE {})
    /\ kernels = {<<d, KernelImages[i]>> : d \in dirs, i \in 1..2}
    /\ links = [p \in LinkPaths \cup {CopyTo, NewPath(CopyTo)} |->
                  IF p \in {BootIpxe, BootTestIpxe}
                  THEN IF exc = NoExc THEN IpxeConfig(TS) ELSE IpxeConfig(PrevTS)
                  ELSE Nil]
    /\ refvm = "running"
    /\ testhost = IF exc = NoExc THEN "up-new" ELSE "down"
    /\ resets = 0
    /\ sessions \in [targets -> {q \o <<"">> : q \in Listings(SessionNames, MaxSessions)}]
    /\ mapped = {}
    /\ mounts = {}
    /\ tmpdir = FALSE
    /\ stamps = {<<VmSnapshot(PrevTS), PrevTS>>}
                \cup (IF exc = NoExc THEN {<<VmSnapshot(TS), TS>>} ELSE {})
    /\ pv = "absent"
    /\ lock = 0
    /\ log = <<>>
    /\ \E status \in {"idle", "busy", "down"} :
          hist = [committed |-> exc = NoExc, status |-> status,
                  snapshots |-> <<>>, snapshot |-> "", todo |-> <<>>]

\* add_snapshot after its with block: what was raised leaves add; else
\* `if args.push: reboot_inactive_clients(vmm, args)`, which begins with
\* get_snapshots (virsh dumpxml may fail)
add_snapshot_push ==
    /\ pc = "unwind"
    /\ stack = <<>>
    /\ IF exc # NoExc
       THEN /\ pc' = "raised"
            /\ UNCHANGED <<exc, hist>>
       ELSE IF ~args.push
       THEN /\ pc' = "returned"
            /\ UNCHANGED <<exc, hist>>
       ELSE \/ /\ pc' = "reboot_inactive_clients"
               /\ hist' = [hist EXCEPT !.snapshots = get_snapshots]
               /\ UNCHANGED exc
            \/ /\ pc' = "raised"
               /\ exc' = "CalledProcessError"
               /\ UNCHANGED hist
    /\ UNCHANGED <<stack, args, lvm, iscsi, outdir, machines, snapfs, host, log>>

\* reboot_inactive_clients, `for snapshot in snapshots`: the sessions of the
\* snapshot's target are read
reboot_inactive_clients ==
    /\ pc = "reboot_inactive_clients"
    /\ IF hist.snapshots = <<>>
       THEN /\ pc' = "returned"
            /\ UNCHANGED hist
       ELSE LET snapshot == Head(hist.snapshots)
                found    == get_dynamic_iscsi_sessions(Target(snapshot))
            IN  /\ hist' = [hist EXCEPT !.snapshots = Tail(@), !.snapshot = snapshot,
                                        !.todo = found]
                /\ pc' = IF found = <<>> THEN pc ELSE "session"
    /\ UNCHANGED <<stack, exc, args, lvm, iscsi, outdir, machines, snapfs, host, log>>

\* `for session in sessions`: get_hostname, ValueError is logged; then
\* try_reboot_if_idle(host) unless the host is the test host: `ssh host who`
\* (check_output: a non-zero exit is caught and logged), reboot when the
\* output is empty.  A host told to reboot may answer ssh for a while yet.
try_reboot_if_idle ==
    /\ pc = "session"
    /\ LET session == Head(hist.todo)
           hostname == get_hostname(session)
           rest    == [hist EXCEPT !.todo = Tail(@)]
       IN  /\ pc' = IF Tail(hist.todo) = <<>> THEN "reboot_inactive_clients" ELSE pc
           /\ IF hostname = "ValueError" \/ hostname = args.test_host
              THEN /\ hist' = rest
                   /\ UNCHANGED log
              ELSE CASE hist.status = "down" ->
                          /\ log' = Append(log, [cmd |-> "who", host |-> hostname,
                                                 snapshot |-> hist.snapshot, out |-> "raise"])
                          /\ hist' = rest
                     [] hist.status = "busy" ->
                          /\ log' = Append(log, [cmd |-> "who", host |-> hostname,
                                                 snapshot |-> hist.snapshot, out |-> "user"])
                          /\ hist' = rest
                     [] OTHER ->
                          /\ log' = log \o
                                    <<[cmd |-> "who", host |-> hostname,
                                       snapshot |-> hist.snapshot, out |-> ""],
                                      [cmd |-> "reboot", host |-> hostname,
                                       snapshot |-> hist.snapshot, out |-> ""]>>
                          /\ \E after \in {"idle", "down"} :
                                hist' = [rest EXCEPT !.status = after]
    /\ UNCHANGED <<stack, exc, args, lvm, iscsi, outdir, machines, snapfs, host>>

NextPush ==
    \/ add_snapshot_push
    \/ reboot_inactive_clients
    \/ try_reboot_if_idle

SpecPush == InitPush /\ [][NextPush]_vars

\* C23: a command of push-to-fleet is issued only when --push was given and
\* snapshot_stack was closed without an exception.  Every reboot sent goes
\* to a host found in a session of a snapshot older than the promoted one,
\* that is not the test host, right after `who` on that host printed
\* nothing; no host is sent reboot twice; and once the sessions are being
\* walked nothing aborts the run.
C23_PushRebootsIdleOldOnce ==
    /\ log # <<>> => hist.committed /\ args.push
    /\ \A i \in 1..Len(log) :
          log[i].cmd = "reboot" =>
             /\ log[i].snapshot # TS
             /\ log[i].host # args.test_host
             /\ i > 1
             /\ log[i - 1].cmd = "who" /\ log[i - 1].host = log[i].host
             /\ log[i - 1].out = ""
    /\ \A i, j \in 1..Len(log) :
          (i < j /\ log[i].cmd = "reboot" /\ log[j].cmd = "reboot") => log[i].host # log[j].host
    /\ pc = "raised" => log = <<>>

(* ------------------------------------------------------------------ *)
(* clean, with initiators that log in while it runs                    *)
(* ------------------------------------------------------------------ *)

\* an initiator logs in to the target of the snapshot clean_snapshot is
\* working on, after dynamic_sessions was read and while the target is
\* still there: the kernel adds its name to the file
initiator_login ==
    /\ pc \in {"clean_ipxe_config", "clean_artifacts", "remove_iscsi_target"}
    /\ Target(Cur.ts) \in targets
    /\ Target(Cur.ts) \in DOMAIN sessions
    /\ get_dynamic_iscsi_sessions(Target(Cur.ts)) = <<>>
    /\ sessions' = [sessions EXCEPT ![Target(Cur.ts)] = ClientSession]
    /\ UNCHANGED <<pc, stack, exc, args, lvm, iscsi, outdir, refvm, testhost, resets,
                   snapfs, log, hist>>
    /\ UNCHANGED host

NextCleanLogin ==
    \/ NextClean
    \/ initiator_login

SpecCleanLogin == InitClean /\ [][NextCleanLogin]_vars

\* C36: clean_snapshot with force=False deletes the iSCSI target of a
\* snapshot only when the target has no dynamic session at that moment,
\* also when an initiator logs in between the session check and the removal.
C36_NoTargetDeletedUnderSession ==
    [][(/\ pc = "remove_iscsi_target"
        /\ ~Cur.force
        /\ Target(Cur.ts) \in targets
        /\ Target(Cur.ts) \notin targets')
       => (get_dynamic_iscsi_sessions(Target(Cur.ts)) = <<>>)]_vars

(* ------------------------------------------------------------------ *)
(* clean, run again after a run that stopped at an open LV             *)
(* ------------------------------------------------------------------ *)

\* clean is started again, with the same arguments, after a run that raised
\* because the LV of a snapshot was open; what that run removed stays removed
clean_again ==
    /\ pc = "raised"
    /\ exc = "RuntimeError"
    /\ hist.open
    /\ hist.aborted = ""
    /\ pc' = "clean_snapshots"
    /\ exc' = NoExc
    /\ hist' = [hist EXCEPT !.snapshots = <<>>, !.todo = <<>>, !.skipped = {},
                            !.returned = {}, !.open = FALSE, !.aborted = Cur.ts]
    /\ UNCHANGED <<stack, world, log>>
    /\ UNCHANGED host

NextCleanAgain ==
    \/ NextClean
    \/ clean_again

SpecCleanAgain == InitClean /\ [][NextCleanAgain]_vars

\* the calls of a command for a snapshot in the command log
Calls(what, ts) == {i \in 1..Len(log) : log[i] = <<what, ts>>}

\* C37: in a run of clean that follows one which stopped at an open LV, with
\* no command failing other than the deletes of what is already gone,
\* clean_snapshot raises only where it finds an LV open; called for the
\* snapshot the first run stopped at, it is not skipped, and when it has
\* returned the snapshot LV and its -cache LV are removed.
C37_RerunAfterAbort ==
    (hist.aborted # "" /\ hist.hfails = 0) =>
        /\ pc = "raised" => hist.open /\ exc = "RuntimeError"
        /\ hist.aborted \notin hist.skipped
        /\ hist.aborted \in hist.returned =>
              /\ VmSnapshot(hist.aborted) \notin lvs
              /\ CacheLv(hist.aborted) \notin lvs
        /\ (pc \in {"remove_lv", "remove_cache_volume"} /\ Cur.ts = hist.aborted) =>
              /\ Cardinality(Calls("remove_iscsi_target", hist.aborted)) = 2
              /\ Cardinality(Calls("remove_iscsi_backstore", hist.aborted)) = 2
              /\ Target(hist.aborted) \notin targets
              /\ Backstore(hist.aborted) \notin backstores

\* the second run found the LV closed and removed the snapshot, which had a
\* cache LV, after both deletes had failed on what the first run had removed
C37_Witness ==
    /\ pc = "returned"
    /\ hist.aborted # ""
    /\ hist.hfails = 0
    /\ hist.aborted \in hist.returned
    /\ Cardinality(Calls("remove_iscsi_target", hist.aborted)) = 2
    /\ Cardinality(Calls("is_lv_open", hist.aborted)) = 2
    /\ Cardinality(Calls("remove_lv cache", hist.aborted)) = 1
    /\ VmSnapshot(hist.aborted) \notin lvs
    /\ CacheLv(hist.aborted) \notin lvs

====
